---- MODULE Spec2Model ----
(***************************************************************************)
(* Tenant connection cache and lifecycle manager                            *)
(* (github.com/MK-Solutions-LTDA/tenant-connection).                        *)
(*                                                                          *)
(* Goroutines call GetTenantConnectionV2 and the methods of                 *)
(* TenantConnectionV2 concurrently.  Every access to shared state (the      *)
(* global Mutex, the Connections cache, a pool's RWMutex and closed flag,   *)
(* a database handle) is one step of the calling goroutine.                 *)
(***************************************************************************)
EXTENDS Integers, Sequences, FiniteSets, TLC

----------------------------------------------------------------------------
(* Bounds of the model *)

NumThreads == 2          \* goroutines
MaxHandles == 2          \* sql.Open calls that may succeed
MaxCalls   == 3          \* API calls started in one behaviour
MaxTicks   == 1          \* clock advances
TickMinutes == 30        \* minutes per clock advance
ShortTTL   == 20         \* a caller-chosen CacheTTL, in minutes
CustomConns == 10        \* a caller-chosen connection limit

Threads   == 1..NumThreads
HandleIds == 1..MaxHandles

----------------------------------------------------------------------------
(* Constants of the program *)

Minute == 1
Hour   == 60 * Minute
DefaultCacheTTL        == 55 * Minute
DefaultConnMaxLifetime == 1 * Hour
DefaultConnMaxIdle     == 1 * Hour
DefaultMaxOpenConns    == 25
DefaultMaxIdleConns    == 25

prefixConnection == "con-"

\* time.Duration is a signed integer: a negative TTL is a value a caller can pass
NegativeTTL == 0 - 1

TenantKeys  == {"", "a", "b"}      \* tenant strings a caller passes
V1Tenants   == {"a", "v2-a"}       \* tenant strings passed to GetTenantConnection
V1TTL       == 60                  \* 1*time.Hour, in minutes
CatalogRows == {"a"}               \* schema_name values present in the catalog table

nil == 0                            \* the nil *TenantConnectionV2 / nil *sql.DB
NoEntry == [type |-> "none", ref |-> 0, exp |-> 0]
NoExpiry == 0 - 1

----------------------------------------------------------------------------
(* Errors *)

ErrNil == [msg |-> "", wraps |-> <<>>]
ErrRecordNotFound == [msg |-> "record not found", wraps |-> <<>>]
ErrStore          == [msg |-> "catalog store error", wraps |-> <<>>]
ErrDriver         == [msg |-> "driver error", wraps |-> <<>>]
ErrTenantRequired == [msg |-> "tenant name is required", wraps |-> <<>>]
ErrClosedOrInvalid == [msg |-> "connection is closed or invalid", wraps |-> <<>>]
ErrNoValidDB      == [msg |-> "failed to get valid database connection", wraps |-> <<>>]
ErrTenantNotInContext == [msg |-> "tenant not found in context", wraps |-> <<>>]
ErrFactoryNotSet  == [msg |-> "global factory not set - use SetGlobalFactory first",
                      wraps |-> <<>>]
ErrFactoryMismatch == [msg |-> "global factory type mismatch", wraps |-> <<>>]

\* fmt.Errorf("...: %w", err)
Wrap(m, err) == [msg |-> m, wraps |-> <<err>>]

\* errors.Is(err, target) for the one-level chains the program builds
ErrorsIs(err, target) ==
    \/ err = target
    \/ /\ Len(err.wraps) = 1
       /\ err.wraps[1] = target

----------------------------------------------------------------------------
(* TenantConnectOptions and default resolution *)

Options(tenant, maxOpen, maxIdle, connMaxIdle, connMaxLifetime, forceUTC, logger, cacheEnabled, cacheTTL) ==
    [Tenant |-> tenant, MaxOpenConns |-> maxOpen, MaxIdleConns |-> maxIdle,
     ConnMaxIdle |-> connMaxIdle, ConnMaxLifetime |-> connMaxLifetime,
     ForceUTC |-> forceUTC, QueryLogger |-> logger,
     CacheEnabled |-> cacheEnabled, CacheTTL |-> cacheTTL]

ZeroOptions == Options("", 0, 0, 0, 0, FALSE, "nil", FALSE, 0)

\* ApplyDefaults with the MaxIdleConns test written on MaxOpenConns
ApplyDefaults_IdleFromOpen(o) ==
    [o EXCEPT !.CacheTTL        = IF @ = 0 THEN DefaultCacheTTL ELSE @,
              !.ConnMaxLifetime = IF @ = 0 THEN DefaultConnMaxLifetime ELSE @,
              !.ConnMaxIdle     = IF @ = 0 THEN DefaultConnMaxIdle ELSE @,
              !.MaxOpenConns    = IF @ = 0 THEN DefaultMaxOpenConns ELSE @,
              !.MaxIdleConns    = IF o.MaxOpenConns = 0 THEN DefaultMaxIdleConns ELSE @]

\* the "if field == 0 { field = default }" block
ApplyDefaults(o) ==
    [o EXCEPT !.CacheTTL        = IF @ = 0 THEN DefaultCacheTTL ELSE @,
              !.ConnMaxLifetime = IF @ = 0 THEN DefaultConnMaxLifetime ELSE @,
              !.ConnMaxIdle     = IF @ = 0 THEN DefaultConnMaxIdle ELSE @,
              !.MaxOpenConns    = IF @ = 0 THEN DefaultMaxOpenConns ELSE @,
              !.MaxIdleConns    = IF @ = 0 THEN DefaultMaxIdleConns ELSE @]

\* the cache-enabled test, evaluated on options that already carry the defaults
ResolveCacheEnabled(o) ==
    IF o.CacheEnabled \/ (~o.CacheEnabled /\ o.CacheTTL > 0)
    THEN [o EXCEPT !.CacheEnabled = TRUE]
    ELSE o

ResolveOptions(o) == ResolveCacheEnabled(ApplyDefaults(o))

CacheKeyV2(tenant) == prefixConnection \o "v2-" \o tenant
CacheKeyV1(tenant) == prefixConnection \o tenant

\* every key the two generations can form
CacheKeys == {CacheKeyV2(t) : t \in TenantKeys} \cup {CacheKeyV1(t) : t \in TenantKeys}

----------------------------------------------------------------------------
(* State *)

VARIABLES
    Connections,    \* the ristretto cache: key -> entry [type, ref, exp] or NoEntry
    Mutex,          \* the global sync.Mutex: 0 when unlocked, else the goroutine that locked it
    handles,        \* *sql.DB handles: id -> [st, closes, cfg]
    pools,          \* *TenantConnectionV2 objects, indexed by the handle they own
    th,             \* per goroutine: program counter, arguments, locals, return values
    resolverCalls,  \* number of GetTenant calls made so far
    now,            \* wall clock, in minutes
    dbUp,           \* whether the tenant database answers
    fatal,          \* the Go runtime killed the process (unlock of unlocked mutex)
    ncalls,         \* API calls started so far
    handed,         \* pools some caller has received a reference to
    optIn,          \* options under default resolution (pure-function check)
    optOut,
    globalFactory,  \* the package variable globalFactory: an interface value of two
                    \* words, the dynamic type and the data pointer
    lastFactory,    \* the factory given to the last SetGlobalFactory call that returned
    setRace         \* two SetGlobalFactory calls have overlapped

vars == <<Connections, Mutex, handles, pools, th, resolverCalls, now, dbUp,
          fatal, ncalls, handed, optIn, optOut, globalFactory, lastFactory, setRace>>

NoHandle == [st |-> "none", closes |-> 0, cfg |-> <<>>]
NoPool   == [live |-> FALSE, DB |-> nil, SearchPath |-> "", Options |-> ZeroOptions,
             closed |-> FALSE, w |-> 0, r |-> {}]

NoRet == [conn |-> nil, err |-> ErrNil, ok |-> FALSE]

\* a SqlcFactory[T] as an interface value: its dynamic type and the function it points to
Factory(type, id) == [type |-> type, id |-> id]

\* the nil interface
NoFactory == Factory("", 0)

\* the object a factory returns: which function built it, over which handle
NoObj == [by |-> 0, db |-> nil]

\* what ctx.Value(TenantContextKey) holds: nothing, a value that is not a string,
\* or a string
CtxAbsent == [kind |-> "absent", str |-> ""]
CtxInt    == [kind |-> "int", str |-> ""]
CtxString(str) == [kind |-> "string", str |-> str]

IdleThread ==
    [pc |-> "idle", op |-> "none", in |-> ZeroOptions, opts |-> ZeroOptions,
     ctxOk |-> TRUE, tc |-> nil, conn |-> nil, db |-> nil,
     ret |-> NoRet, err |-> ErrNil,
     \* history of the current call
     nres |-> 0, nopen |-> 0, path |-> "", hit |-> nil, closedAtCall |-> {},
     \* logged execution: logger invocations, the logger invoked, statements
     \* executed, the sql.Result / *sql.Rows / *sql.Row returned
     nlog |-> 0, logger |-> "", nexec |-> 0, res |-> "", ndiag |-> 0,
     \* factory adapters: the factory in hand, the requested type T, the context
     \* value, factory invocations, the object built
     fac |-> NoFactory, T |-> "", cv |-> CtxAbsent, nfac |-> 0, obj |-> NoObj,
     \* GetTenantConnection: its tenant argument
     tenant |-> ""]


----------------------------------------------------------------------------
(* External collaborators as the program uses them *)

\* Connections.Get finding an entry whatever its expiration
CacheGet_IgnoresExpiry(key) ==
    LET e == Connections[key] IN
    IF e.type # "none"
    THEN [found |-> TRUE, type |-> e.type, ref |-> e.ref]
    ELSE [found |-> FALSE, type |-> "none", ref |-> nil]

\* Connections.Get: an entry is found until its expiration has passed
CacheGet(key) ==
    LET e == Connections[key] IN
    IF e.type # "none" /\ (e.exp = NoExpiry \/ now <= e.exp)
    THEN [found |-> TRUE, type |-> e.type, ref |-> e.ref]
    ELSE [found |-> FALSE, type |-> "none", ref |-> nil]

\* Connections.SetWithTTL(key, value, 1, ttl): a negative ttl stores nothing,
\* a zero ttl stores without expiration
CacheSetWithTTL(key, type, ref, ttl) ==
    IF ttl < 0 THEN Connections
    ELSE [Connections EXCEPT ![key] =
            [type |-> type, ref |-> ref,
             exp |-> IF ttl = 0 THEN NoExpiry ELSE now + ttl]]

\* Connections.Del(key)
CacheDel(key) == [Connections EXCEPT ![key] = NoEntry]

\* db.PingContext / db.ExecContext on handle h with a context that is live or not
PingContext(h, ctxLive) == handles[h].st = "open" /\ dbUp /\ ctxLive

\* db.Close()
DBClose(h) == [handles EXCEPT ![h].st = "closed", ![h].closes = @ + 1]

\* GetTenant(tenant) once the catalog store has answered
GetTenant(tenant) ==
    IF tenant \in CatalogRows
    THEN [catalog |-> tenant, err |-> ErrNil]
    ELSE [catalog |-> "", err |-> ErrRecordNotFound]

UsedHandles == {h \in HandleIds : handles[h].st # "none"}
FreeHandle  == CHOOSE h \in HandleIds \ UsedHandles :
                   \A g \in HandleIds \ UsedHandles : h <= g

\* program points of GetTenantConnectionV2 and of GetTenantConnection that
\* precede sql.Open
PreOpenPCs == {"v2_lock79", "v2_get81", "v2_unlock82", "v2_ping85", "v2_del89",
               "v2_unlock91", "v2_resolve95", "v2_open106", "gcs_assert384",
               "v1_lock20", "v1_get24", "v1_resolve28", "v1_open34"}

\* handles in use plus the handles goroutines may still open; GetTenantConnection
\* opens none for a tenant without a catalog row
Reserved == Cardinality(UsedHandles)
            + Cardinality({t \in Threads :
                  /\ th[t].pc \in PreOpenPCs
                  /\ th[t].op = "GetTenantConnection" => th[t].tenant \in CatalogRows})

----------------------------------------------------------------------------
(* Initial state: the package after init(), no goroutine inside a call *)

\* the options callers pass: the empty tenant, a tenant without a catalog row, and
\* tenant "a" with caching left on, switched off, with a short TTL and UTC, and
\* switched off together with a negative TTL
CallOptions ==
    { Options("", 0, 0, 0, 0, FALSE, "nil", FALSE, 0),
      Options("b", 0, 0, 0, 0, FALSE, "nil", TRUE, 0),
      Options("a", 0, 0, 0, 0, FALSE, "nil", TRUE, 0),
      Options("a", 0, 0, 0, 0, FALSE, "nil", FALSE, 0),
      Options("a", 0, 0, 0, 0, TRUE, "custom", TRUE, ShortTTL),
      Options("a", 0, 0, 0, 0, FALSE, "nil", FALSE, NegativeTTL) }

InitShared ==
    /\ Connections = [k \in CacheKeys |-> NoEntry]
    /\ Mutex = 0
    /\ handles = [h \in HandleIds |-> NoHandle]
    /\ pools = [h \in HandleIds |-> NoPool]
    /\ th = [t \in Threads |-> IdleThread]
    /\ resolverCalls = 0
    /\ now = 0
    /\ dbUp = TRUE
    /\ fatal = FALSE
    /\ ncalls = 0
    /\ handed = {}
    /\ globalFactory = NoFactory
    /\ lastFactory = NoFactory
    /\ setRace = FALSE

Init ==
    /\ InitShared
    /\ optIn = ZeroOptions
    /\ optOut = ZeroOptions

----------------------------------------------------------------------------
(* Helpers for steps *)

CanCall(t) == /\ ~fatal
              /\ th[t].pc \in {"idle", "done"}
              /\ ncalls < MaxCalls

At(t, pc) == ~fatal /\ th[t].pc = pc

\* a goroutine's record at the start of a call
Enter(op, in, opts, ctxOk, tc, pc) ==
    [IdleThread EXCEPT !.pc = pc, !.op = op, !.in = in, !.opts = opts,
                       !.ctxOk = ctxOk, !.tc = tc]

\* return (conn, err) from the current call
Return(rec, conn, err) ==
    [IdleThread EXCEPT !.pc = "done", !.op = rec.op, !.in = rec.in, !.tc = rec.tc,
                       !.err = rec.err, !.closedAtCall = rec.closedAtCall,
                       !.nres = rec.nres, !.nopen = rec.nopen, !.path = rec.path,
                       !.hit = rec.hit, !.db = rec.db,
                       !.nlog = rec.nlog, !.logger = rec.logger,
                       !.nexec = rec.nexec, !.res = rec.res, !.ndiag = rec.ndiag,
                       !.fac = rec.fac, !.T = rec.T, !.cv = rec.cv,
                       !.nfac = rec.nfac, !.obj = rec.obj, !.tenant = rec.tenant,
                       !.ret = [conn |-> conn, err |-> err, ok |-> TRUE]]

\* Mutex.Lock() by t
MutexLock(t) == Mutex = 0 /\ Mutex' = t

\* Mutex.Unlock(): unlocking an unlocked sync.Mutex is a fatal runtime error;
\* a sync.Mutex has no owner, so it is released whoever locked it
MutexUnlock ==
    IF Mutex = 0 THEN /\ fatal' = TRUE /\ UNCHANGED Mutex
                 ELSE /\ Mutex' = 0 /\ UNCHANGED fatal

\* the variables no step of the manager or of a pool method changes
OptVars == <<optIn, optOut, globalFactory, lastFactory, setRace>>

\* GetTenantConnectionV2 returns (conn, err): to the application, or to line 239 of
\* NewSqlcWithTenantConnection, which returns (zero, nil, err) at once on an error
\* (lines 240-243) and goes on to tenantConn.GetDB() otherwise
ReturnV2(rec, conn, err) ==
    IF rec.op = "GetTenantConnectionV2" THEN Return(rec, conn, err)
    ELSE IF err # ErrNil THEN Return(rec, nil, err)
    ELSE [Return(rec, nil, ErrNil) EXCEPT !.pc = "ns_getdb246", !.conn = conn,
                                          !.ret = NoRet]

\* the pools callers hold once GetTenantConnectionV2 has returned conn: the
\* application receives it from a direct call, an adapter keeps it to itself
HandOut(rec, conn) ==
    IF rec.op = "GetTenantConnectionV2" THEN handed \cup {conn} ELSE handed

----------------------------------------------------------------------------
(* GetTenantConnectionV2 *)

\* GetTenantConnectionV2 entry without the empty-tenant test
GetTenantConnectionV2_Call_NoTenantCheck(t) ==
    /\ CanCall(t)
    /\ \E in \in CallOptions, ctxOk \in BOOLEAN :
         /\ Reserved < MaxHandles
         /\ LET opts == ResolveOptions(in) IN
            th' = [th EXCEPT ![t] =
              [Enter("GetTenantConnectionV2", in, opts, ctxOk, nil,
                     IF opts.CacheEnabled THEN "v2_lock79" ELSE "v2_resolve95")
               EXCEPT !.closedAtCall = {p \in HandleIds : pools[p].closed}]]
    /\ ncalls' = ncalls + 1
    /\ UNCHANGED <<Connections, Mutex, handles, pools, resolverCalls, now, dbUp,
                   fatal, handed, OptVars>>

\* entry: tenant validation, default resolution, cache-enabled resolution
GetTenantConnectionV2_Call(t) ==
    /\ CanCall(t)
    /\ \E in \in CallOptions, ctxOk \in BOOLEAN :
         IF in.Tenant = ""
         THEN th' = [th EXCEPT ![t] =
                  ReturnV2(Enter("GetTenantConnectionV2", in, in, ctxOk, nil, "done"),
                         nil, ErrTenantRequired)]
         ELSE /\ Reserved < MaxHandles
              /\ LET opts == ResolveOptions(in) IN
                 th' = [th EXCEPT ![t] =
                   [Enter("GetTenantConnectionV2", in, opts, ctxOk, nil,
                          IF opts.CacheEnabled THEN "v2_lock79" ELSE "v2_resolve95")
                    EXCEPT !.closedAtCall = {p \in HandleIds : pools[p].closed}]]
    /\ ncalls' = ncalls + 1
    /\ UNCHANGED <<Connections, Mutex, handles, pools, resolverCalls, now, dbUp,
                   fatal, handed, OptVars>>

\* line 79: Mutex.Lock()
V2_Lock79(t) ==
    /\ At(t, "v2_lock79")
    /\ MutexLock(t)
    /\ th' = [th EXCEPT ![t].pc = "v2_get81"]
    /\ UNCHANGED <<Connections, handles, pools, resolverCalls, now, dbUp,
                   fatal, ncalls, handed, OptVars>>

\* line 81: Connections.Get(cacheKey)
V2_Get81(t) ==
    /\ At(t, "v2_get81")
    /\ LET g == CacheGet(CacheKeyV2(th[t].opts.Tenant)) IN
       th' = [th EXCEPT ![t].pc = IF g.found THEN "v2_unlock82" ELSE "v2_unlock91",
                        ![t].conn = g.ref,
                        ![t].hit = g.ref]
    /\ UNCHANGED <<Connections, Mutex, handles, pools, resolverCalls, now, dbUp,
                   fatal, ncalls, handed, OptVars>>

\* line 82: Mutex.Unlock() inside the found branch
V2_Unlock82(t) ==
    /\ At(t, "v2_unlock82")
    /\ MutexUnlock
    /\ th' = [th EXCEPT ![t].pc = "v2_ping85"]
    /\ UNCHANGED <<Connections, handles, pools, resolverCalls, now, dbUp,
                   ncalls, handed, OptVars>>

\* lines 85-87 with the probe test inverted
V2_Ping85_Inverted(t) ==
    /\ At(t, "v2_ping85")
    /\ th' = [th EXCEPT ![t].pc =
                 IF ~PingContext(pools[th[t].conn].DB, th[t].ctxOk)
                 THEN "v2_ret86" ELSE "v2_del89"]
    /\ UNCHANGED <<Connections, Mutex, handles, pools, resolverCalls, now, dbUp,
                   fatal, ncalls, handed, OptVars>>

\* line 85: probe the cached pool with the caller's context
V2_Ping85(t) ==
    /\ At(t, "v2_ping85")
    /\ th' = [th EXCEPT ![t].pc =
                 IF PingContext(pools[th[t].conn].DB, th[t].ctxOk)
                 THEN "v2_ret86" ELSE "v2_del89"]
    /\ UNCHANGED <<Connections, Mutex, handles, pools, resolverCalls, now, dbUp,
                   fatal, ncalls, handed, OptVars>>

\* line 86: return tenantConn, nil after the probe answered; no lock is held
\* between the probe and the return
V2_Return86(t) ==
    /\ At(t, "v2_ret86")
    /\ th' = [th EXCEPT ![t] =
                 ReturnV2([th[t] EXCEPT !.path = "hit"], th[t].conn, ErrNil)]
    /\ handed' = HandOut(th[t], th[t].conn)
    /\ UNCHANGED <<Connections, Mutex, handles, pools, resolverCalls, now, dbUp,
                   fatal, ncalls, OptVars>>

\* line 89: Connections.Del(cacheKey)
V2_Del89(t) ==
    /\ At(t, "v2_del89")
    /\ Connections' = CacheDel(CacheKeyV2(th[t].opts.Tenant))
    /\ th' = [th EXCEPT ![t].pc = "v2_unlock91"]
    /\ UNCHANGED <<Mutex, handles, pools, resolverCalls, now, dbUp,
                   fatal, ncalls, handed, OptVars>>

\* line 91: Mutex.Unlock() at the end of the cache block
V2_Unlock91(t) ==
    /\ At(t, "v2_unlock91")
    /\ MutexUnlock
    /\ th' = [th EXCEPT ![t].pc = "v2_resolve95"]
    /\ UNCHANGED <<Connections, handles, pools, resolverCalls, now, dbUp,
                   ncalls, handed, OptVars>>

\* lines 95-98 with the resolver's error formatted by %v instead of wrapped by %w
V2_Resolve95_NoWrap(t) ==
    /\ At(t, "v2_resolve95")
    /\ resolverCalls' = resolverCalls + 1
    /\ \E storeFails \in BOOLEAN :
         LET r == IF storeFails THEN [catalog |-> "", err |-> ErrStore]
                                ELSE GetTenant(th[t].opts.Tenant)
             rec == [th[t] EXCEPT !.nres = @ + 1, !.err = r.err]
         IN IF r.err # ErrNil
            THEN th' = [th EXCEPT ![t] =
                     ReturnV2(rec, nil, [msg |-> "failed to get tenant info", wraps |-> <<>>])]
            ELSE th' = [th EXCEPT ![t] = [rec EXCEPT !.pc = "v2_open106"]]
    /\ UNCHANGED <<Connections, Mutex, handles, pools, now, dbUp,
                   fatal, ncalls, handed, OptVars>>

\* lines 95-98 calling the resolver again after a store failure
V2_Resolve95_Retries(t) ==
    /\ At(t, "v2_resolve95")
    /\ resolverCalls' = resolverCalls + 1
    /\ \E storeFails \in BOOLEAN :
         LET r == IF storeFails THEN [catalog |-> "", err |-> ErrStore]
                                ELSE GetTenant(th[t].opts.Tenant)
             rec == [th[t] EXCEPT !.nres = @ + 1, !.err = r.err]
         IN IF r.err = ErrStore
            THEN th' = [th EXCEPT ![t] = rec]
            ELSE IF r.err # ErrNil
            THEN th' = [th EXCEPT ![t] =
                     ReturnV2(rec, nil, Wrap("failed to get tenant info", r.err))]
            ELSE th' = [th EXCEPT ![t] = [rec EXCEPT !.pc = "v2_open106"]]
    /\ UNCHANGED <<Connections, Mutex, handles, pools, now, dbUp,
                   fatal, ncalls, handed, OptVars>>

\* lines 95-98: GetTenant; a store failure is an outcome the catalog may produce
V2_Resolve95(t) ==
    /\ At(t, "v2_resolve95")
    /\ resolverCalls' = resolverCalls + 1
    /\ \E storeFails \in BOOLEAN :
         LET r == IF storeFails THEN [catalog |-> "", err |-> ErrStore]
                                ELSE GetTenant(th[t].opts.Tenant)
             rec == [th[t] EXCEPT !.nres = @ + 1, !.err = r.err]
         IN IF r.err # ErrNil
            THEN th' = [th EXCEPT ![t] =
                     ReturnV2(rec, nil, Wrap("failed to get tenant info", r.err))]
            ELSE th' = [th EXCEPT ![t] = [rec EXCEPT !.pc = "v2_open106"]]
    /\ UNCHANGED <<Connections, Mutex, handles, pools, now, dbUp,
                   fatal, ncalls, handed, OptVars>>

\* lines 106-115: sql.Open and the four Set* calls on the new handle
V2_Open106(t) ==
    /\ At(t, "v2_open106")
    /\ \E openFails \in BOOLEAN :
         IF openFails
         THEN /\ th' = [th EXCEPT ![t] =
                   ReturnV2(th[t], nil, Wrap("failed to open database connection", ErrDriver))]
              /\ UNCHANGED handles
         ELSE LET h == FreeHandle
                  o == th[t].opts IN
              /\ handles' = [handles EXCEPT ![h] =
                   [st |-> "open", closes |-> 0,
                    cfg |-> <<o.MaxOpenConns, o.MaxIdleConns, o.ConnMaxIdle, o.ConnMaxLifetime>>]]
              /\ th' = [th EXCEPT ![t].pc = "v2_ping123", ![t].db = h, ![t].nopen = @ + 1]
    /\ UNCHANGED <<Connections, Mutex, pools, resolverCalls, now, dbUp,
                   fatal, ncalls, handed, OptVars>>

\* a setup step that returns its error without db.Close()
SetupStep_NoClose(t, pc, next, msg) ==
    /\ At(t, pc)
    /\ IF PingContext(th[t].db, TRUE)
       THEN th' = [th EXCEPT ![t].pc = next]
       ELSE th' = [th EXCEPT ![t] = ReturnV2(th[t], nil, Wrap(msg, ErrDriver))]
    /\ UNCHANGED <<Connections, Mutex, handles, pools, resolverCalls, now, dbUp,
                   fatal, ncalls, handed, OptVars>>

\* a setup step run under the caller's context instead of setupCtx
SetupStep_CallerCtx(t, pc, next, msg) ==
    /\ At(t, pc)
    /\ IF PingContext(th[t].db, th[t].ctxOk)
       THEN /\ th' = [th EXCEPT ![t].pc = next]
            /\ UNCHANGED handles
       ELSE /\ th' = [th EXCEPT ![t] = ReturnV2(th[t], nil, Wrap(msg, ErrDriver))]
            /\ handles' = DBClose(th[t].db)
    /\ UNCHANGED <<Connections, Mutex, pools, resolverCalls, now, dbUp,
                   fatal, ncalls, handed, OptVars>>

\* a setup step on the private handle under setupCtx: on failure db.Close() and return
SetupStep(t, pc, next, msg) ==
    /\ At(t, pc)
    /\ IF PingContext(th[t].db, TRUE)
       THEN /\ th' = [th EXCEPT ![t].pc = next]
            /\ UNCHANGED handles
       ELSE /\ th' = [th EXCEPT ![t] = ReturnV2(th[t], nil, Wrap(msg, ErrDriver))]
            /\ handles' = DBClose(th[t].db)
    /\ UNCHANGED <<Connections, Mutex, pools, resolverCalls, now, dbUp,
                   fatal, ncalls, handed, OptVars>>

\* lines 123-126: db.PingContext(setupCtx)
V2_Ping123(t) ==
    SetupStep(t, "v2_ping123", "v2_exec129", "failed to ping database")

\* lines 129-140 without the SET TIMEZONE statement
V2_Exec129_SkipsUTC(t) ==
    SetupStep(t, "v2_exec129", "v2_ping151", "failed to set search_path")

\* lines 129-132: SET search_path TO <tenant>
V2_Exec129(t) ==
    SetupStep(t, "v2_exec129",
              IF th[t].opts.ForceUTC THEN "v2_exec136" ELSE "v2_ping151",
              "failed to set search_path")

\* lines 135-140: SET TIMEZONE='UTC'
V2_Exec136(t) ==
    SetupStep(t, "v2_exec136", "v2_ping151", "failed to set timezone")

\* lines 143-154: build the TenantConnectionV2 and validate it a last time
V2_Ping151(t) ==
    /\ At(t, "v2_ping151")
    /\ LET h == th[t].db
           o == th[t].opts IN
       IF PingContext(h, TRUE)
       THEN /\ pools' = [pools EXCEPT ![h] =
                  [live |-> TRUE, DB |-> h, SearchPath |-> o.Tenant, Options |-> o,
                   closed |-> FALSE, w |-> 0, r |-> {}]]
            /\ IF o.CacheEnabled
               THEN /\ th' = [th EXCEPT ![t].pc = "v2_lock158", ![t].conn = h]
                    /\ UNCHANGED handed
               ELSE /\ th' = [th EXCEPT ![t] =
                         ReturnV2([th[t] EXCEPT !.path = "built", !.conn = h], h, ErrNil)]
                    /\ handed' = HandOut(th[t], h)
            /\ UNCHANGED handles
       ELSE /\ th' = [th EXCEPT ![t] =
                 ReturnV2(th[t], nil, Wrap("final connection validation failed", ErrDriver))]
            /\ handles' = DBClose(h)
            /\ UNCHANGED <<pools, handed>>
    /\ UNCHANGED <<Connections, Mutex, resolverCalls, now, dbUp,
                   fatal, ncalls, OptVars>>

\* line 158: Mutex.Lock()
V2_Lock158(t) ==
    /\ At(t, "v2_lock158")
    /\ MutexLock(t)
    /\ th' = [th EXCEPT ![t].pc = "v2_set160"]
    /\ UNCHANGED <<Connections, handles, pools, resolverCalls, now, dbUp,
                   fatal, ncalls, handed, OptVars>>

\* line 160: Connections.SetWithTTL(cacheKey, tenantConn, 1, opts.CacheTTL)
V2_Set160(t) ==
    /\ At(t, "v2_set160")
    /\ Connections' = CacheSetWithTTL(CacheKeyV2(th[t].opts.Tenant),
                                      "TenantConnectionV2", th[t].conn,
                                      th[t].opts.CacheTTL)
    /\ th' = [th EXCEPT ![t].pc = "v2_unlock161"]
    /\ UNCHANGED <<Mutex, handles, pools, resolverCalls, now, dbUp,
                   fatal, ncalls, handed, OptVars>>

\* lines 161-165: Mutex.Unlock() and return tenantConn
V2_Unlock161(t) ==
    /\ At(t, "v2_unlock161")
    /\ MutexUnlock
    /\ IF Mutex = 0
       THEN UNCHANGED <<th, handed>>
       ELSE /\ th' = [th EXCEPT ![t] =
                 ReturnV2([th[t] EXCEPT !.path = "built"], th[t].conn, ErrNil)]
            /\ handed' = HandOut(th[t], th[t].conn)
    /\ UNCHANGED <<Connections, handles, pools, resolverCalls, now, dbUp,
                   ncalls, OptVars>>

----------------------------------------------------------------------------
(* TenantConnectionV2 methods.  A caller can invoke them on nil or on any    *)
(* pool that some call has returned.                                         *)

Receivers == handed \cup {nil}

\* RLock that does not wait for a writer
MuRLock_IgnoresWriter(p, t) == TRUE

\* sync.RWMutex of pool p
MuLock(p, t)    == pools[p].w = 0 /\ pools[p].r = {}
MuRLock(p, t)   == pools[p].w = 0

\* Close without the already-closed test
Close_Call_NoClosedCheck(t) ==
    /\ CanCall(t)
    /\ \E tc \in Receivers :
         LET rec == Enter("Close", ZeroOptions, ZeroOptions, TRUE, tc, "done") IN
         IF tc = nil
         THEN /\ th' = [th EXCEPT ![t] = Return(rec, nil, ErrNil)]
              /\ UNCHANGED pools
         ELSE /\ MuLock(tc, t)
              /\ th' = [th EXCEPT ![t] =
                     [rec EXCEPT !.pc = IF pools[tc].Options.CacheEnabled
                                        THEN "close_lock185" ELSE "close_db191"]]
              /\ pools' = [pools EXCEPT ![tc].w = t]
    /\ ncalls' = ncalls + 1
    /\ UNCHANGED <<Connections, Mutex, handles, resolverCalls, now, dbUp,
                   fatal, handed, OptVars>>

\* Close, lines 171-181: nil check, tc.mu.Lock(), already-closed check
Close_Call(t) ==
    /\ CanCall(t)
    /\ \E tc \in Receivers :
         LET rec == Enter("Close", ZeroOptions, ZeroOptions, TRUE, tc, "done") IN
         IF tc = nil
         THEN /\ th' = [th EXCEPT ![t] = Return(rec, nil, ErrNil)]
              /\ UNCHANGED pools
         ELSE /\ MuLock(tc, t)
              /\ IF pools[tc].closed \/ pools[tc].DB = nil
                 THEN /\ th' = [th EXCEPT ![t] =
                           Return([rec EXCEPT !.path = "noop"], nil, ErrNil)]
                      /\ UNCHANGED pools
                 ELSE /\ th' = [th EXCEPT ![t] =
                           [rec EXCEPT !.pc = IF pools[tc].Options.CacheEnabled
                                              THEN "close_lock185" ELSE "close_db191"]]
                      /\ pools' = [pools EXCEPT ![tc].w = t]
    /\ ncalls' = ncalls + 1
    /\ UNCHANGED <<Connections, Mutex, handles, resolverCalls, now, dbUp,
                   fatal, handed, OptVars>>

\* line 185: Mutex.Lock()
Close_Lock185(t) ==
    /\ At(t, "close_lock185")
    /\ MutexLock(t)
    /\ th' = [th EXCEPT ![t].pc = "close_del187"]
    /\ UNCHANGED <<Connections, handles, pools, resolverCalls, now, dbUp,
                   fatal, ncalls, handed, OptVars>>

\* line 187 deleting the key without the "v2-" tag
Close_Del187_V1Key(t) ==
    /\ At(t, "close_del187")
    /\ Connections' = CacheDel(CacheKeyV1(pools[th[t].tc].Options.Tenant))
    /\ th' = [th EXCEPT ![t].pc = "close_unlock188"]
    /\ UNCHANGED <<Mutex, handles, pools, resolverCalls, now, dbUp,
                   fatal, ncalls, handed, OptVars>>

\* line 187: Connections.Del(cacheKey)
Close_Del187(t) ==
    /\ At(t, "close_del187")
    /\ Connections' = CacheDel(CacheKeyV2(pools[th[t].tc].Options.Tenant))
    /\ th' = [th EXCEPT ![t].pc = "close_unlock188"]
    /\ UNCHANGED <<Mutex, handles, pools, resolverCalls, now, dbUp,
                   fatal, ncalls, handed, OptVars>>

\* line 188 left out: Close goes on with the mutex still locked
Close_Unlock188_KeepsMutex(t) ==
    /\ At(t, "close_unlock188")
    /\ th' = [th EXCEPT ![t].pc = "close_db191"]
    /\ UNCHANGED <<Connections, Mutex, handles, pools, resolverCalls, now, dbUp,
                   fatal, ncalls, handed, OptVars>>

\* line 188: Mutex.Unlock()
Close_Unlock188(t) ==
    /\ At(t, "close_unlock188")
    /\ MutexUnlock
    /\ th' = [th EXCEPT ![t].pc = "close_db191"]
    /\ UNCHANGED <<Connections, handles, pools, resolverCalls, now, dbUp,
                   ncalls, handed, OptVars>>

\* line 191: err := tc.DB.Close(); the driver may report an error
Close_DB191(t) ==
    /\ At(t, "close_db191")
    /\ handles' = DBClose(pools[th[t].tc].DB)
    /\ \E e \in {ErrNil, ErrDriver} :
         th' = [th EXCEPT ![t].pc = "close_mark194", ![t].err = e]
    /\ UNCHANGED <<Connections, Mutex, pools, resolverCalls, now, dbUp,
                   fatal, ncalls, handed, OptVars>>

\* lines 194-196 marking the pool closed only when the handle closed cleanly
Close_Mark194_OnlyOnSuccess(t) ==
    /\ At(t, "close_mark194")
    /\ pools' = [pools EXCEPT ![th[t].tc].closed = (th[t].err = ErrNil),
                              ![th[t].tc].w = 0]
    /\ th' = [th EXCEPT ![t] = Return([th[t] EXCEPT !.path = "closed"], nil, th[t].err)]
    /\ UNCHANGED <<Connections, Mutex, handles, resolverCalls, now, dbUp,
                   fatal, ncalls, handed, OptVars>>

\* lines 194-196 clearing tc.DB as well
Close_Mark194_NilsDB(t) ==
    /\ At(t, "close_mark194")
    /\ pools' = [pools EXCEPT ![th[t].tc].closed = TRUE, ![th[t].tc].w = 0,
                              ![th[t].tc].DB = nil]
    /\ th' = [th EXCEPT ![t] = Return([th[t] EXCEPT !.path = "closed"], nil, th[t].err)]
    /\ UNCHANGED <<Connections, Mutex, handles, resolverCalls, now, dbUp,
                   fatal, ncalls, handed, OptVars>>

\* lines 194-196: tc.closed = true, deferred tc.mu.Unlock(), return err
Close_Mark194(t) ==
    /\ At(t, "close_mark194")
    /\ pools' = [pools EXCEPT ![th[t].tc].closed = TRUE, ![th[t].tc].w = 0]
    /\ th' = [th EXCEPT ![t] = Return([th[t] EXCEPT !.path = "closed"], nil, th[t].err)]
    /\ UNCHANGED <<Connections, Mutex, handles, resolverCalls, now, dbUp,
                   fatal, ncalls, handed, OptVars>>

\* the value IsHealthy(ctx) returns for pool tc
IsHealthy(tc, ctxLive) ==
    IF tc = nil THEN FALSE
    ELSE IF pools[tc].closed \/ pools[tc].DB = nil THEN FALSE
    ELSE PingContext(pools[tc].DB, ctxLive)

\* IsHealthy without the closed / no-handle test
IsHealthy_Call_NoClosedCheck(t) ==
    /\ CanCall(t)
    /\ \E tc \in Receivers, ctxOk \in BOOLEAN :
         LET rec == Enter("IsHealthy", ZeroOptions, ZeroOptions, ctxOk, tc, "done") IN
         IF tc = nil
         THEN /\ th' = [th EXCEPT ![t] = Return(rec, FALSE, ErrNil)]
              /\ UNCHANGED pools
         ELSE /\ MuRLock(tc, t)
              /\ th' = [th EXCEPT ![t] = [rec EXCEPT !.pc = "ih_ping212"]]
              /\ pools' = [pools EXCEPT ![tc].r = @ \cup {t}]
    /\ ncalls' = ncalls + 1
    /\ UNCHANGED <<Connections, Mutex, handles, resolverCalls, now, dbUp,
                   fatal, handed, OptVars>>

\* IsHealthy, lines 201-210: nil check, tc.mu.RLock(), closed check
IsHealthy_Call(t) ==
    /\ CanCall(t)
    /\ \E tc \in Receivers, ctxOk \in BOOLEAN :
         LET rec == Enter("IsHealthy", ZeroOptions, ZeroOptions, ctxOk, tc, "done") IN
         IF tc = nil
         THEN /\ th' = [th EXCEPT ![t] = Return(rec, FALSE, ErrNil)]
              /\ UNCHANGED pools
         ELSE /\ MuRLock(tc, t)
              /\ IF pools[tc].closed \/ pools[tc].DB = nil
                 THEN /\ th' = [th EXCEPT ![t] = Return(rec, FALSE, ErrNil)]
                      /\ UNCHANGED pools
                 ELSE /\ th' = [th EXCEPT ![t] = [rec EXCEPT !.pc = "ih_ping212"]]
                      /\ pools' = [pools EXCEPT ![tc].r = @ \cup {t}]
    /\ ncalls' = ncalls + 1
    /\ UNCHANGED <<Connections, Mutex, handles, resolverCalls, now, dbUp,
                   fatal, handed, OptVars>>

\* line 212 storing the probe's outcome in the closed flag
IsHealthy_Ping212_SetsFlag(t) ==
    /\ At(t, "ih_ping212")
    /\ th' = [th EXCEPT ![t] =
                Return(th[t], PingContext(pools[th[t].tc].DB, th[t].ctxOk), ErrNil)]
    /\ pools' = [pools EXCEPT ![th[t].tc].r = @ \ {t},
                              ![th[t].tc].closed =
                                  ~PingContext(pools[th[t].tc].DB, th[t].ctxOk)]
    /\ UNCHANGED <<Connections, Mutex, handles, resolverCalls, now, dbUp,
                   fatal, ncalls, handed, OptVars>>

\* line 212: return tc.DB.PingContext(ctx) == nil, deferred tc.mu.RUnlock()
IsHealthy_Ping212(t) ==
    /\ At(t, "ih_ping212")
    /\ th' = [th EXCEPT ![t] =
                Return(th[t], IsHealthy(th[t].tc, th[t].ctxOk), ErrNil)]
    /\ pools' = [pools EXCEPT ![th[t].tc].r = @ \ {t}]
    /\ UNCHANGED <<Connections, Mutex, handles, resolverCalls, now, dbUp,
                   fatal, ncalls, handed, OptVars>>

\* GetDB, lines 221-235: the value GetDB returns for pool tc (read under RLock)
GetDB(tc) ==
    IF tc = nil THEN nil
    ELSE IF pools[tc].closed THEN nil
    ELSE pools[tc].DB

GetDB_Call(t) ==
    /\ CanCall(t)
    /\ \E tc \in Receivers :
         /\ tc # nil => MuRLock(tc, t)
         /\ th' = [th EXCEPT ![t] =
               Return(Enter("GetDB", ZeroOptions, ZeroOptions, TRUE, tc, "done"),
                      GetDB(tc), ErrNil)]
    /\ ncalls' = ncalls + 1
    /\ UNCHANGED <<Connections, Mutex, handles, pools, resolverCalls, now, dbUp,
                   fatal, handed, OptVars>>

LoggedOps == {"ExecWithLog", "QueryWithLog", "QueryRowWithLog"}

\* ExecWithLog / QueryWithLog / QueryRowWithLog reading tc.DB instead of tc.GetDB()
Logged_Call_RawDB(t) ==
    /\ CanCall(t)
    /\ \E tc \in handed, op \in LoggedOps, ctxOk \in BOOLEAN :
         /\ MuRLock(tc, t)
         /\ LET rec == Enter(op, ZeroOptions, ZeroOptions, ctxOk, tc, "done")
                db  == pools[tc].DB IN
            IF db = nil
            THEN th' = [th EXCEPT ![t] =
                     IF op = "QueryRowWithLog"
                     THEN Return([rec EXCEPT !.res = "emptyRow"], nil, ErrNil)
                     ELSE Return(rec, nil, ErrClosedOrInvalid)]
            ELSE th' = [th EXCEPT ![t] = [rec EXCEPT !.pc = "log_logger", !.db = db]]
    /\ ncalls' = ncalls + 1
    /\ UNCHANGED <<Connections, Mutex, handles, pools, resolverCalls, now, dbUp,
                   fatal, handed, OptVars>>

\* ExecWithLog 291-294, QueryWithLog 313-316, QueryRowWithLog 335-340:
\* db := tc.GetDB(); when it is nil return (nil, error), or &sql.Row{} for a row
Logged_Call(t) ==
    /\ CanCall(t)
    /\ \E tc \in handed, op \in LoggedOps, ctxOk \in BOOLEAN :
         /\ MuRLock(tc, t)
         /\ LET rec == Enter(op, ZeroOptions, ZeroOptions, ctxOk, tc, "done")
                db  == GetDB(tc) IN
            IF db = nil
            THEN th' = [th EXCEPT ![t] =
                     IF op = "QueryRowWithLog"
                     THEN Return([rec EXCEPT !.res = "emptyRow"], nil, ErrNil)
                     ELSE Return(rec, nil, ErrClosedOrInvalid)]
            ELSE th' = [th EXCEPT ![t] = [rec EXCEPT !.pc = "log_logger", !.db = db]]
    /\ ncalls' = ncalls + 1
    /\ UNCHANGED <<Connections, Mutex, handles, pools, resolverCalls, now, dbUp,
                   fatal, handed, OptVars>>

\* lines 297-303 always taking defaultLogger
Logged_Log_DefaultOnly(t) ==
    /\ At(t, "log_logger")
    /\ th' = [th EXCEPT ![t].pc = "log_exec",
                        ![t].nlog = @ + 1,
                        ![t].logger = "default"]
    /\ UNCHANGED <<Connections, Mutex, handles, pools, resolverCalls, now, dbUp,
                   fatal, ncalls, handed, OptVars>>

\* lines 297-303 (319-325, 342-348): logger := tc.Options.QueryLogger, or
\* defaultLogger when it is nil; logger(ctx, query, args...)
Logged_Log(t) ==
    /\ At(t, "log_logger")
    /\ th' = [th EXCEPT ![t].pc = "log_exec",
                        ![t].nlog = @ + 1,
                        ![t].logger = IF pools[th[t].tc].Options.QueryLogger = "nil"
                                      THEN "default" ELSE "custom"]
    /\ UNCHANGED <<Connections, Mutex, handles, pools, resolverCalls, now, dbUp,
                   fatal, ncalls, handed, OptVars>>

\* the value a logged method returns after db.ExecContext / QueryContext /
\* QueryRowContext with the caller's context: a row reports its error at Scan
ExecResult(op, ok) ==
    IF op = "QueryRowWithLog" THEN [res |-> "row", err |-> ErrNil]
    ELSE IF ok THEN [res |-> IF op = "ExecWithLog" THEN "result" ELSE "rows",
                     err |-> ErrNil]
    ELSE [res |-> "", err |-> ErrDriver]

\* the fixed diagnostic line after the execution: fmt.Printf at line 307 of
\* ExecWithLog and line 329 of QueryWithLog; QueryRowWithLog (line 351) has none
DiagnosticLines(op) == IF op \in {"ExecWithLog", "QueryWithLog"} THEN 1 ELSE 0

\* lines 306-308 (328-330, 351): execute on the handle read by GetDB and return
Logged_Exec(t) ==
    /\ At(t, "log_exec")
    /\ LET x == ExecResult(th[t].op, PingContext(th[t].db, th[t].ctxOk)) IN
       th' = [th EXCEPT ![t] =
          Return([th[t] EXCEPT !.nexec = @ + 1, !.res = x.res,
                               !.ndiag = @ + DiagnosticLines(th[t].op)], nil, x.err)]
    /\ UNCHANGED <<Connections, Mutex, handles, pools, resolverCalls, now, dbUp,
                   fatal, ncalls, handed, OptVars>>

\* CloseAllTenantConnections emptying the cache
CloseAll_Call_ClearsCache(t) ==
    /\ CanCall(t)
    /\ MutexLock(t)
    /\ Connections' = [k \in CacheKeys |-> NoEntry]
    /\ th' = [th EXCEPT ![t] =
          Enter("CloseAllTenantConnections", ZeroOptions, ZeroOptions, TRUE, nil,
                "closeall_unlock357")]
    /\ ncalls' = ncalls + 1
    /\ UNCHANGED <<handles, pools, resolverCalls, now, dbUp,
                   fatal, handed, OptVars>>

\* CloseAllTenantConnections, line 356: Mutex.Lock()
CloseAll_Call(t) ==
    /\ CanCall(t)
    /\ MutexLock(t)
    /\ th' = [th EXCEPT ![t] =
          Enter("CloseAllTenantConnections", ZeroOptions, ZeroOptions, TRUE, nil,
                "closeall_unlock357")]
    /\ ncalls' = ncalls + 1
    /\ UNCHANGED <<Connections, handles, pools, resolverCalls, now, dbUp,
                   fatal, handed, OptVars>>

\* lines 357-364: deferred Mutex.Unlock(), return nil
CloseAll_Unlock357(t) ==
    /\ At(t, "closeall_unlock357")
    /\ MutexUnlock
    /\ th' = [th EXCEPT ![t] = Return(th[t], nil, ErrNil)]
    /\ UNCHANGED <<Connections, handles, pools, resolverCalls, now, dbUp,
                   ncalls, handed, OptVars>>

----------------------------------------------------------------------------
(* Environment *)

\* time passes
Tick ==
    /\ ~fatal
    /\ now < MaxTicks * TickMinutes
    /\ now' = now + TickMinutes
    /\ UNCHANGED <<Connections, Mutex, handles, pools, th, resolverCalls, dbUp,
                   fatal, ncalls, handed, OptVars>>

\* the tenant database goes down or comes back
DbToggle ==
    /\ ~fatal
    /\ dbUp' = ~dbUp
    /\ UNCHANGED <<Connections, Mutex, handles, pools, th, resolverCalls, now,
                   fatal, ncalls, handed, OptVars>>

----------------------------------------------------------------------------
(* The program *)

Next ==
    \/ \E t \in Threads : GetTenantConnectionV2_Call(t)
    \/ \E t \in Threads : V2_Lock79(t)
    \/ \E t \in Threads : V2_Get81(t)
    \/ \E t \in Threads : V2_Unlock82(t)
    \/ \E t \in Threads : V2_Ping85(t)
    \/ \E t \in Threads : V2_Return86(t)
    \/ \E t \in Threads : V2_Del89(t)
    \/ \E t \in Threads : V2_Unlock91(t)
    \/ \E t \in Threads : V2_Resolve95(t)
    \/ \E t \in Threads : V2_Open106(t)
    \/ \E t \in Threads : V2_Ping123(t)
    \/ \E t \in Threads : V2_Exec129(t)
    \/ \E t \in Threads : V2_Exec136(t)
    \/ \E t \in Threads : V2_Ping151(t)
    \/ \E t \in Threads : V2_Lock158(t)
    \/ \E t \in Threads : V2_Set160(t)
    \/ \E t \in Threads : V2_Unlock161(t)
    \/ \E t \in Threads : Close_Call(t)
    \/ \E t \in Threads : Close_Lock185(t)
    \/ \E t \in Threads : Close_Del187(t)
    \/ \E t \in Threads : Close_Unlock188(t)
    \/ \E t \in Threads : Close_DB191(t)
    \/ \E t \in Threads : Close_Mark194(t)
    \/ \E t \in Threads : IsHealthy_Call(t)
    \/ \E t \in Threads : IsHealthy_Ping212(t)
    \/ \E t \in Threads : GetDB_Call(t)
    \/ \E t \in Threads : Logged_Call(t)
    \/ \E t \in Threads : Logged_Log(t)
    \/ \E t \in Threads : Logged_Exec(t)
    \/ \E t \in Threads : CloseAll_Call(t)
    \/ \E t \in Threads : CloseAll_Unlock357(t)
    \/ Tick
    \/ DbToggle

Spec == Init /\ [][Next]_vars

----------------------------------------------------------------------------
(* Vocabulary of the properties *)

V2 == "GetTenantConnectionV2"

\* goroutine t has returned from a call of op
Done(t, op) == th[t].pc = "done" /\ th[t].op = op

\* this step starts a call of goroutine t (and of no other goroutine)
CallStep(t) ==
    /\ ncalls' = ncalls + 1
    /\ \A u \in Threads \ {t} : th'[u] = th[u]

\* this step is taken by goroutine t at program point pc
StepAt(t, pc) == th[t].pc = pc /\ th'[t] # th[t]

Cached(p) == \E k \in CacheKeys : Connections[k].type # "none" /\ Connections[k].ref = p

\* program points at which the goroutine has just issued, or is about to issue,
\* a cache operation, and the probe of a found entry
CacheOpPCs == {"v2_get81", "v2_ping85", "v2_del89", "v2_set160", "close_del187"}

----------------------------------------------------------------------------
(* C1 *)

\* two cache-enabled calls for the same tenant that both looked up the cache
\* before anything was stored in it (no time has passed, nothing else was called)
ConcurrentFromEmptyCache(t1, t2) ==
    /\ t1 # t2
    /\ ncalls = 2 /\ now = 0
    /\ Done(t1, V2) /\ Done(t2, V2)
    /\ th[t1].in.Tenant = th[t2].in.Tenant
    /\ th[t1].in.CacheEnabled /\ th[t2].in.CacheEnabled
    /\ th[t1].hit = nil /\ th[t2].hit = nil
    /\ th[t1].ret.err = ErrNil /\ th[t2].ret.err = ErrNil

\* C1: concurrent GetTenantConnectionV2 calls for one tenant key, starting from an
\* empty cache, construct exactly one pool (one resolver call, one handle opened)
\* and every caller receives that pool.
C1_OnePoolForConcurrentCalls ==
    \A t1, t2 \in Threads :
        ConcurrentFromEmptyCache(t1, t2) =>
            /\ th[t1].ret.conn = th[t2].ret.conn
            /\ resolverCalls = 1
            /\ Cardinality(UsedHandles) = 1

----------------------------------------------------------------------------
(* C2 *)

\* the lookup of a call finds the entry stored under its key until the TTL elapses
C2_Lookup(t) ==
    LET k == CacheKeyV2(th[t].opts.Tenant) IN
    (/\ StepAt(t, "v2_get81")
     /\ Connections[k].type # "none"
     /\ now <= Connections[k].exp)
    => /\ th'[t].hit = Connections[k].ref
       /\ th'[t].pc = "v2_unlock82"
       /\ resolverCalls' = resolverCalls

\* the probe of a found pool that is live and not closed finds it healthy, and
\* the call then ends with that pool
C2_Probe(t) ==
    LET p == th[t].hit IN
    /\ (/\ StepAt(t, "v2_ping85")
        /\ ~pools[p].closed
        /\ PingContext(pools[p].DB, th[t].ctxOk))
       => /\ th'[t].pc = "v2_ret86"
          /\ resolverCalls' = resolverCalls
          /\ IsHealthy(p, th[t].ctxOk)'
    /\ StepAt(t, "v2_ret86")
       => /\ th'[t].pc = "done"
          /\ th'[t].ret = [conn |-> p, err |-> ErrNil, ok |-> TRUE]
          /\ th'[t].nres = 0
          /\ resolverCalls' = resolverCalls

----------------------------------------------------------------------------
(* C3 *)

\* C3: once Close has returned on a pool P, P has no cache entry, IsHealthy on P
\* is false, and no GetTenantConnectionV2 call that started afterwards holds or
\* returns P.
C3_ClosedPoolNotHandedOut ==
    \A p \in HandleIds :
        pools[p].closed =>
            /\ ~Cached(p)
            /\ ~IsHealthy(p, TRUE)
            /\ \A t \in Threads :
                 (th[t].op = V2 /\ p \in th[t].closedAtCall) =>
                     /\ th[t].conn # p
                     /\ th[t].hit # p
                     /\ th[t].ret.conn # p

C3_Witness ==
    \E t \in Threads, p \in HandleIds :
        /\ pools[p].closed
        /\ pools[p].Options.CacheEnabled
        /\ Done(t, V2)
        /\ p \in th[t].closedAtCall
        /\ th[t].in.Tenant = pools[p].Options.Tenant
        /\ th[t].ret.err = ErrNil
        /\ th[t].ret.conn # nil

----------------------------------------------------------------------------
(* C4 *)

\* a Close call on nil or on a pool that is already closed
C4_RepeatedClose(t) ==
    /\ CallStep(t)
    /\ th'[t].op = "Close"
    /\ th'[t].tc = nil \/ pools[th'[t].tc].closed

\* C4: Close on a closed pool or on nil returns nil at once, closes no handle,
\* touches neither the cache nor the global lock and changes no pool; no handle
\* is ever closed twice.
C4_CloseIdempotent ==
    /\ [][\A t \in Threads :
            C4_RepeatedClose(t) =>
              /\ th'[t].pc = "done"
              /\ th'[t].ret.err = ErrNil
              /\ UNCHANGED <<handles, Connections, pools, Mutex, fatal>>]_vars
    /\ [](\A h \in HandleIds : handles[h].closes <= 1)

C4_Witness ==
    \E t \in Threads :
        /\ Done(t, "Close")
        /\ th[t].tc # nil
        /\ th[t].path = "noop"
        /\ pools[th[t].tc].closed
        /\ handles[pools[th[t].tc].DB].closes = 1

----------------------------------------------------------------------------
(* C5 *)

\* C5: a pool's closed flag, once true, stays true under every operation.
C5_ClosedNeverReverts ==
    [][\A p \in HandleIds : pools[p].closed => pools'[p].closed]_vars

C5_Witness ==
    \E t \in Threads, p \in HandleIds :
        /\ pools[p].closed
        /\ Done(t, "GetDB")
        /\ th[t].tc = p
        /\ th[t].ret.conn = nil

----------------------------------------------------------------------------
(* C6 *)

\* C6: every cache Get, Del and SetWithTTL of GetTenantConnectionV2 and Close, and
\* the probe of a found entry, happen while the calling goroutine holds the
\* global mutex.
C6_CacheOpsUnderGlobalLock ==
    \A t \in Threads : th[t].pc \in CacheOpPCs => Mutex = t

----------------------------------------------------------------------------
(* C7 *)

C7_EmptyTenantCall(t) ==
    /\ CallStep(t)
    /\ th'[t].op = V2
    /\ th'[t].in.Tenant = ""

\* C7: a call with an empty tenant returns a validation error and a nil pool in
\* one step, without calling the resolver, opening a handle, taking the global
\* lock or changing the cache.
C7_EmptyTenantRejected ==
    [][\A t \in Threads :
         C7_EmptyTenantCall(t) =>
           /\ th'[t].pc = "done"
           /\ th'[t].ret = [conn |-> nil, err |-> ErrTenantRequired, ok |-> TRUE]
           /\ th'[t].nres = 0 /\ th'[t].nopen = 0
           /\ UNCHANGED <<resolverCalls, handles, pools, Mutex, Connections, fatal>>]_vars

C7_Witness ==
    \E t \in Threads :
        /\ Done(t, V2)
        /\ th[t].in.Tenant = ""
        /\ th[t].ret.err = ErrTenantRequired
        /\ resolverCalls = 0

----------------------------------------------------------------------------
(* C8 *)

\* C8: when the resolver fails (th[t].err is the error GetTenant returned), the
\* call returns an error that wraps it, no pool, and has opened no handle; a
\* tenant without a catalog row always fails this way and never has a cache
\* entry under its key.
C8_ResolverFailure ==
    /\ \A t \in Threads :
         (Done(t, V2) /\ th[t].err # ErrNil) =>
            /\ th[t].ret.conn = nil
            /\ th[t].ret.err # th[t].err
            /\ ErrorsIs(th[t].ret.err, th[t].err)
            /\ th[t].nopen = 0
            /\ th[t].nres = 1
    /\ \A t \in Threads :
         (Done(t, V2) /\ th[t].in.Tenant \notin CatalogRows \cup {""}) =>
            /\ th[t].err \in {ErrRecordNotFound, ErrStore}
            /\ th[t].ret.conn = nil
    /\ \A tn \in TenantKeys \ (CatalogRows \cup {""}) :
         Connections[CacheKeyV2(tn)] = NoEntry

C8_Witness ==
    \E t \in Threads :
        /\ Done(t, V2)
        /\ th[t].in.Tenant \notin CatalogRows
        /\ th[t].err = ErrRecordNotFound
        /\ ErrorsIs(th[t].ret.err, ErrRecordNotFound)
        /\ th[t].ret.err.msg = "failed to get tenant info"

----------------------------------------------------------------------------
(* C10 *)

\* C10: a call with CacheEnabled false and CacheTTL zero neither looks up nor
\* populates the cache, and the pool it builds is not cache-managed.
C10_CacheDisabledByFlag ==
    /\ \A t \in Threads :
         (th[t].op = V2 /\ ~th[t].in.CacheEnabled /\ th[t].in.CacheTTL = 0) =>
            th[t].pc \notin {"v2_lock79", "v2_get81", "v2_unlock82", "v2_ping85",
                             "v2_del89", "v2_unlock91", "v2_lock158", "v2_set160",
                             "v2_unlock161"}
    /\ \A t \in Threads :
         (Done(t, V2) /\ ~th[t].in.CacheEnabled /\ th[t].in.CacheTTL = 0
            /\ th[t].ret.conn # nil) =>
            ~pools[th[t].ret.conn].Options.CacheEnabled

----------------------------------------------------------------------------
(* Default resolution as a function of the caller's options *)

\* the options a caller may pass: every numeric field zero or set
OptionSpace ==
    { Options(tn, mo, mi, idle, life, utc, lg, ce, ttl) :
        tn \in TenantKeys \ {""},
        mo \in {0, CustomConns}, mi \in {0, CustomConns},
        idle \in {0, ShortTTL}, life \in {0, ShortTTL},
        utc \in BOOLEAN, lg \in {"nil", "custom"}, ce \in BOOLEAN,
        ttl \in {NegativeTTL, 0, ShortTTL} }

InitOpts ==
    /\ InitShared
    /\ optIn \in OptionSpace
    /\ optOut = ZeroOptions

\* lines 56-76 of GetTenantConnectionV2 applied to optIn
ResolveDefaults ==
    /\ optOut.Tenant = ""
    /\ optOut' = ResolveOptions(optIn)
    /\ UNCHANGED <<Connections, Mutex, handles, pools, th, resolverCalls, now, dbUp,
                   fatal, ncalls, handed, optIn, globalFactory, lastFactory, setRace>>

SpecOpts == InitOpts /\ [][ResolveDefaults]_vars

OnlyTenantSet(o) == o = [ZeroOptions EXCEPT !.Tenant = o.Tenant]

\* C9: after default resolution a zero MaxOpenConns / MaxIdleConns is 25, a zero
\* ConnMaxIdle / ConnMaxLifetime is one hour (60 minutes), a zero CacheTTL is 55
\* minutes, and every field the caller set to a non-zero value is unchanged.
C9_DefaultResolution ==
    optOut.Tenant # "" =>
        /\ optOut.MaxOpenConns = (IF optIn.MaxOpenConns = 0 THEN 25 ELSE optIn.MaxOpenConns)
        /\ optOut.MaxIdleConns = (IF optIn.MaxIdleConns = 0 THEN 25 ELSE optIn.MaxIdleConns)
        /\ optOut.ConnMaxIdle = (IF optIn.ConnMaxIdle = 0 THEN 60 ELSE optIn.ConnMaxIdle)
        /\ optOut.ConnMaxLifetime =
              (IF optIn.ConnMaxLifetime = 0 THEN 60 ELSE optIn.ConnMaxLifetime)
        /\ optOut.CacheTTL = (IF optIn.CacheTTL = 0 THEN 55 ELSE optIn.CacheTTL)
        /\ optOut.Tenant = optIn.Tenant
        /\ optOut.ForceUTC = optIn.ForceUTC
        /\ optOut.QueryLogger = optIn.QueryLogger
        /\ optIn.CacheEnabled => optOut.CacheEnabled

C9_Witness ==
    /\ optOut.Tenant # ""
    /\ OnlyTenantSet(optIn)
    /\ optOut.MaxOpenConns = 25 /\ optOut.MaxIdleConns = 25
    /\ optOut.ConnMaxIdle = 60 /\ optOut.ConnMaxLifetime = 60
    /\ optOut.CacheTTL = 55

----------------------------------------------------------------------------
(* C11 *)

\* pool p is stored under no key of the cache
NotCachedNext(p) ==
    \A k \in CacheKeys : Connections'[k].type = "none" \/ Connections'[k].ref # p

\* the step that ends the cache block after a failed probe of the found pool
C11_StaleProbe(t) ==
    (StepAt(t, "v2_unlock91") /\ th[t].hit # nil) =>
        /\ ~fatal'
        /\ th'[t].pc = "v2_resolve95"
        /\ NotCachedNext(th[t].hit)

\* what a call that found a pool and saw its probe fail returns
C11_StaleReturn(t) ==
    (Done(t, V2) /\ th[t].hit # nil /\ th[t].path # "hit") =>
        /\ th[t].ret.conn # th[t].hit
        /\ th[t].ret.err = ErrNil =>
              /\ th[t].path = "built"
              /\ th[t].ret.conn = th[t].db
              /\ th[t].nres = 1

\* C11: when GetTenantConnectionV2 finds a cached pool whose probe fails, it deletes
\* the stale entry and goes on to rebuild (the process keeps running and the call
\* reaches the resolver); the call returns a newly built pool or an error, never
\* the stale pool.
C11_StaleEntryRebuilt ==
    /\ [][\A t \in Threads : C11_StaleProbe(t)]_vars
    /\ [](\A t \in Threads : C11_StaleReturn(t))

----------------------------------------------------------------------------
(* C12 *)

\* C12: when a setup step of GetTenantConnectionV2 fails after the handle was opened
\* (initial ping, SET search_path, SET TIMEZONE, final ping), the call has closed
\* that handle once, returns an error and no pool, and nothing is cached or handed
\* out for that build.
C12_SetupFailureReleasesHandle ==
    \A t \in Threads :
        (Done(t, V2) /\ th[t].db # nil /\ th[t].ret.err # ErrNil) =>
            /\ th[t].ret.conn = nil
            /\ handles[th[t].db].st = "closed"
            /\ handles[th[t].db].closes = 1
            /\ ~Cached(th[t].db)
            /\ th[t].db \notin handed
            /\ th[t].ret.err.msg \in {"failed to ping database",
                                      "failed to set search_path",
                                      "failed to set timezone",
                                      "final connection validation failed"}

\* a build with ForceUTC fails at the SET TIMEZONE statement
C12_Witness ==
    \E t \in Threads :
        /\ Done(t, V2) /\ th[t].db # nil
        /\ th[t].ret.err.msg = "failed to set timezone"
        /\ handles[th[t].db].st = "closed"

----------------------------------------------------------------------------
(* C13 *)

\* C13: a Close that reaches the handle's close leaves the pool with closed = true
\* whatever the handle's close reported, and returns exactly what it reported; a
\* pool whose handle is closed is marked closed as soon as that Close has taken
\* its next step.
C13_FirstCloseMarksClosed ==
    /\ \A t \in Threads :
          (Done(t, "Close") /\ th[t].path = "closed") =>
              /\ pools[th[t].tc].closed
              /\ th[t].ret.err = th[t].err
              /\ th[t].err \in {ErrNil, ErrDriver}
    /\ \A p \in HandleIds :
          (pools[p].live /\ handles[pools[p].DB].st = "closed") =>
              \/ pools[p].closed
              \/ \E t \in Threads : th[t].pc = "close_mark194" /\ th[t].tc = p

\* the handle's close failed and the pool is closed all the same
C13_Witness ==
    \E t \in Threads :
        /\ Done(t, "Close") /\ th[t].path = "closed"
        /\ th[t].ret.err = ErrDriver
        /\ pools[th[t].tc].closed

----------------------------------------------------------------------------
(* C14 *)

\* a GetDB call returns nil when the pool is closed and its handle otherwise
C14_GetDB(t) ==
    (CallStep(t) /\ th'[t].op = "GetDB" /\ th'[t].tc # nil) =>
        th'[t].ret.conn = IF pools[th'[t].tc].closed THEN nil
                          ELSE pools[th'[t].tc].DB

\* C14: Close never sets a pool's handle reference to nil: every pool built by
\* GetTenantConnectionV2 has a non-nil DB field in every state, which no step
\* changes, and GetDB returns nil exactly when closed is true and the handle
\* otherwise.
C14_HandleKeptAfterClose ==
    /\ [](\A p \in HandleIds : pools[p].live => pools[p].DB # nil)
    /\ [][\A p \in HandleIds : pools[p].live => pools'[p].DB = pools[p].DB]_vars
    /\ [][\A t \in Threads : C14_GetDB(t)]_vars

\* GetDB has answered nil on a closed pool that still refers to its closed handle
C14_Witness ==
    \E t \in Threads :
        /\ Done(t, "GetDB") /\ th[t].tc # nil
        /\ th[t].ret.conn = nil
        /\ pools[th[t].tc].closed
        /\ pools[th[t].tc].DB # nil
        /\ handles[pools[th[t].tc].DB].st = "closed"

----------------------------------------------------------------------------
(* C15 *)

\* no pool's closed flag and no cache entry changes in this step
FlagsAndCacheUnchanged ==
    /\ Connections' = Connections
    /\ \A p \in HandleIds : pools'[p].closed = pools[p].closed

\* the entry of IsHealthy: false at once for nil, closed or handle-less pools
C15_Entry(t) ==
    (CallStep(t) /\ th'[t].op = "IsHealthy") =>
        LET tc == th'[t].tc IN
        /\ FlagsAndCacheUnchanged
        /\ IF tc = nil \/ pools[tc].closed \/ pools[tc].DB = nil
           THEN th'[t].pc = "done" /\ th'[t].ret.conn = FALSE
           ELSE th'[t].pc = "ih_ping212"

\* the probe of IsHealthy, the only step that reaches the handle
C15_Probe(t) ==
    StepAt(t, "ih_ping212") =>
        /\ FlagsAndCacheUnchanged
        /\ th'[t].pc = "done"
        /\ th'[t].ret.conn = PingContext(pools[th[t].tc].DB, th[t].ctxOk)

\* C15: IsHealthy returns false for a nil pool, a closed pool or a pool without a
\* handle without probing; otherwise it returns true exactly when the probe with
\* the caller's context succeeds; it changes neither a closed flag nor the cache.
C15_IsHealthyResult ==
    [][\A t \in Threads : C15_Entry(t) /\ C15_Probe(t)]_vars

\* IsHealthy has probed an open pool and answered false
C15_Witness ==
    \E t \in Threads :
        /\ Done(t, "IsHealthy") /\ th[t].tc # nil
        /\ th[t].ret.conn = FALSE
        /\ ~pools[th[t].tc].closed
        /\ handles[pools[th[t].tc].DB].st = "open"

----------------------------------------------------------------------------
(* C16 *)

\* a logged method called on a closed pool returns in its first step
C16_ClosedPoolCall(t) ==
    (/\ CallStep(t)
     /\ th'[t].op \in LoggedOps
     /\ pools[th'[t].tc].closed) =>
        /\ th'[t].pc = "done"
        /\ th'[t].nlog = 0 /\ th'[t].nexec = 0
        /\ handles' = handles
        /\ IF th'[t].op = "QueryRowWithLog"
           THEN th'[t].res = "emptyRow" /\ th'[t].ret.err = ErrNil
           ELSE th'[t].res = "" /\ th'[t].ret.err = ErrClosedOrInvalid

\* C16: on a pool whose closed flag is set, ExecWithLog and QueryWithLog return the
\* closed-pool error and a nil result, and QueryRowWithLog returns a row handle;
\* none of them invokes the logger or executes the statement.
C16_ClosedPoolRejected ==
    [][\A t \in Threads : C16_ClosedPoolCall(t)]_vars

\* ExecWithLog was refused on a closed pool
C16_Witness ==
    \E t \in Threads :
        /\ Done(t, "ExecWithLog")
        /\ pools[th[t].tc].closed
        /\ th[t].ret.err = ErrClosedOrInvalid
        /\ th[t].nlog = 0 /\ th[t].nexec = 0

----------------------------------------------------------------------------
(* Factory adapters: NewSqlcWithTenantConnection, GetConnection,             *)
(* GetConnectionFromContext, SetGlobalFactory, GetConnectionSimple,          *)
(* GetConnectionFromContextSimple                                            *)

\* the result types T the application instantiates the adapters with
Types == {"A", "B"}

\* the factories of the application: two that build an A, one that builds a B
Factories == {Factory("A", 1), Factory("A", 2), Factory("B", 3)}

\* the factories passed as an argument
ArgFactories == {Factory("A", 1)}

\* the values a request context holds under TenantContextKey
ContextValues == {CtxAbsent, CtxInt, CtxString(""), CtxString("a")}

\* the options adapters are called with: the empty tenant, tenant "a" with UTC
\* and a short TTL, tenant "a" with the cache switched off
AdapterOptions ==
    {o \in CallOptions : o.Tenant = "" \/ o.ForceUTC \/ o.CacheTTL < 0}

\* ctx.Value(TenantContextKey).(string)
StringValue(cv) ==
    [tenant |-> IF cv.kind = "string" THEN cv.str ELSE "", ok |-> cv.kind = "string"]

\* the options GetConnection builds: the tenant and CacheEnabled
ConnectionOptions(tenant) == Options(tenant, 0, 0, 0, 0, FALSE, "nil", TRUE, 0)

\* lines 52-76 of GetTenantConnectionV2 entered from an adapter whose record rec
\* carries the options and the caller's context
V2_Entry(rec) ==
    IF rec.in.Tenant = "" THEN ReturnV2(rec, nil, ErrTenantRequired)
    ELSE LET opts == ResolveOptions(rec.in) IN
         [rec EXCEPT !.opts = opts,
                     !.pc = IF opts.CacheEnabled THEN "v2_lock79" ELSE "v2_resolve95",
                     !.closedAtCall = {p \in HandleIds : pools[p].closed}]

\* NewSqlcWithTenantConnection(ctx, factory, opts), line 239
NewSqlcWithTenantConnection_Call(t) ==
    /\ CanCall(t)
    /\ \E in \in AdapterOptions, f \in ArgFactories, ctxOk \in BOOLEAN :
         /\ in.Tenant # "" => Reserved < MaxHandles
         /\ th' = [th EXCEPT ![t] =
               V2_Entry([Enter("NewSqlcWithTenantConnection", in, in, ctxOk, nil, "idle")
                         EXCEPT !.fac = f])]
    /\ ncalls' = ncalls + 1
    /\ UNCHANGED <<Connections, Mutex, handles, pools, resolverCalls, now, dbUp,
                   fatal, handed, OptVars>>

\* line 246 reading tc.DB instead of tc.GetDB()
NS_GetDB246_RawDB(t) ==
    /\ At(t, "ns_getdb246")
    /\ MuRLock(th[t].conn, t)
    /\ LET db == pools[th[t].conn].DB IN
       IF db = nil
       THEN th' = [th EXCEPT ![t] = Return(th[t], nil, ErrNoValidDB)]
       ELSE th' = [th EXCEPT ![t].pc = "ns_factory254", ![t].db = db]
    /\ UNCHANGED <<Connections, Mutex, handles, pools, resolverCalls, now, dbUp,
                   fatal, ncalls, handed, OptVars>>

\* lines 246-250: db := tenantConn.GetDB(); return an error when it is nil
NS_GetDB246(t) ==
    /\ At(t, "ns_getdb246")
    /\ MuRLock(th[t].conn, t)
    /\ LET db == GetDB(th[t].conn) IN
       IF db = nil
       THEN th' = [th EXCEPT ![t] = Return(th[t], nil, ErrNoValidDB)]
       ELSE th' = [th EXCEPT ![t].pc = "ns_factory254", ![t].db = db]
    /\ UNCHANGED <<Connections, Mutex, handles, pools, resolverCalls, now, dbUp,
                   fatal, ncalls, handed, OptVars>>

\* line 254: return factory(db), tenantConn, nil; calling a nil function value
\* panics, which ends the process
NS_Factory254(t) ==
    /\ At(t, "ns_factory254")
    /\ IF th[t].fac.id = 0
       THEN /\ fatal' = TRUE
            /\ th' = [th EXCEPT ![t].nfac = @ + 1]
            /\ UNCHANGED handed
       ELSE /\ th' = [th EXCEPT ![t] =
                 Return([th[t] EXCEPT !.nfac = @ + 1,
                                      !.obj = [by |-> th[t].fac.id, db |-> th[t].db]],
                        th[t].conn, ErrNil)]
            /\ handed' = handed \cup {th[t].conn}
            /\ UNCHANGED fatal
    /\ UNCHANGED <<Connections, Mutex, handles, pools, resolverCalls, now, dbUp,
                   ncalls, OptVars>>

\* GetConnection(ctx, tenant, factory), lines 259-266
GetConnection_Call(t) ==
    /\ CanCall(t)
    /\ \E tenant \in TenantKeys, f \in ArgFactories, ctxOk \in BOOLEAN :
         /\ tenant # "" => Reserved < MaxHandles
         /\ th' = [th EXCEPT ![t] =
               V2_Entry([Enter("GetConnection", ConnectionOptions(tenant),
                               ConnectionOptions(tenant), ctxOk, nil, "idle")
                         EXCEPT !.fac = f])]
    /\ ncalls' = ncalls + 1
    /\ UNCHANGED <<Connections, Mutex, handles, pools, resolverCalls, now, dbUp,
                   fatal, handed, OptVars>>

\* GetConnectionFromContext without the empty-string test
GetConnectionFromContext_Call_NoEmptyCheck(t) ==
    /\ CanCall(t)
    /\ \E cv \in ContextValues, f \in ArgFactories, ctxOk \in BOOLEAN :
         LET v   == StringValue(cv)
             in  == ConnectionOptions(v.tenant)
             rec == [Enter("GetConnectionFromContext", in, in, ctxOk, nil, "idle")
                     EXCEPT !.fac = f, !.cv = cv] IN
         IF ~v.ok
         THEN th' = [th EXCEPT ![t] = Return(rec, nil, ErrTenantNotInContext)]
         ELSE /\ Reserved < MaxHandles
              /\ th' = [th EXCEPT ![t] = V2_Entry(rec)]
    /\ ncalls' = ncalls + 1
    /\ UNCHANGED <<Connections, Mutex, handles, pools, resolverCalls, now, dbUp,
                   fatal, handed, OptVars>>

\* GetConnectionFromContext(ctx, factory), lines 279-287
GetConnectionFromContext_Call(t) ==
    /\ CanCall(t)
    /\ \E cv \in ContextValues, f \in ArgFactories, ctxOk \in BOOLEAN :
         LET v   == StringValue(cv)
             in  == ConnectionOptions(v.tenant)
             rec == [Enter("GetConnectionFromContext", in, in, ctxOk, nil, "idle")
                     EXCEPT !.fac = f, !.cv = cv] IN
         IF ~v.ok \/ v.tenant = ""
         THEN th' = [th EXCEPT ![t] = Return(rec, nil, ErrTenantNotInContext)]
         ELSE /\ Reserved < MaxHandles
              /\ th' = [th EXCEPT ![t] = V2_Entry(rec)]
    /\ ncalls' = ncalls + 1
    /\ UNCHANGED <<Connections, Mutex, handles, pools, resolverCalls, now, dbUp,
                   fatal, handed, OptVars>>

SetPCs == {"sgf_type", "sgf_data"}

\* SetGlobalFactory(factory), line 374: globalFactory = factory stores two words
\* without synchronisation, in either order; this is the first store
SetGlobalFactory_Call(t) ==
    /\ CanCall(t)
    /\ \E f \in Factories, first \in SetPCs :
         /\ globalFactory' = IF first = "sgf_type"
                             THEN [globalFactory EXCEPT !.type = f.type]
                             ELSE [globalFactory EXCEPT !.id = f.id]
         /\ th' = [th EXCEPT ![t] =
               [Enter("SetGlobalFactory", ZeroOptions, ZeroOptions, TRUE, nil,
                      IF first = "sgf_type" THEN "sgf_data" ELSE "sgf_type")
                EXCEPT !.fac = f]]
    /\ setRace' = (setRace \/ \E u \in Threads \ {t} : th[u].pc \in SetPCs)
    /\ ncalls' = ncalls + 1
    /\ UNCHANGED <<Connections, Mutex, handles, pools, resolverCalls, now, dbUp,
                   fatal, handed, optIn, optOut, lastFactory>>

\* line 374, the second store, and the return
SetGlobalFactory_Store(t) ==
    /\ ~fatal
    /\ th[t].pc \in SetPCs
    /\ globalFactory' = IF th[t].pc = "sgf_type"
                        THEN [globalFactory EXCEPT !.type = th[t].fac.type]
                        ELSE [globalFactory EXCEPT !.id = th[t].fac.id]
    /\ lastFactory' = th[t].fac
    /\ th' = [th EXCEPT ![t] = Return(th[t], nil, ErrNil)]
    /\ UNCHANGED <<Connections, Mutex, handles, pools, resolverCalls, now, dbUp,
                   fatal, ncalls, handed, optIn, optOut, setRace>>

\* the first statement of GetConnectionSimple for record rec: line 379 reads the
\* type word of globalFactory (an interface is nil when its type word is)
NilCheck379(rec) ==
    IF globalFactory.type = ""
    THEN Return(rec, nil, ErrFactoryNotSet)
    ELSE [rec EXCEPT !.pc = "gcs_assert384"]

\* GetConnectionSimple without the nil test of line 379
GetConnectionSimple_Call_NoNilCheck(t) ==
    /\ CanCall(t)
    /\ \E T \in Types, tenant \in TenantKeys, ctxOk \in BOOLEAN :
         LET in == ConnectionOptions(tenant) IN
         /\ Reserved < MaxHandles
         /\ th' = [th EXCEPT ![t] =
               [Enter("GetConnectionSimple", in, in, ctxOk, nil, "gcs_assert384")
                EXCEPT !.T = T]]
    /\ ncalls' = ncalls + 1
    /\ UNCHANGED <<Connections, Mutex, handles, pools, resolverCalls, now, dbUp,
                   fatal, handed, OptVars>>

\* GetConnectionSimple[T](ctx, tenant), lines 379-382
GetConnectionSimple_Call(t) ==
    /\ CanCall(t)
    /\ \E T \in Types, tenant \in TenantKeys, ctxOk \in BOOLEAN :
         LET in == ConnectionOptions(tenant) IN
         /\ globalFactory.type # "" => Reserved < MaxHandles
         /\ th' = [th EXCEPT ![t] =
               NilCheck379([Enter("GetConnectionSimple", in, in, ctxOk, nil, "idle")
                            EXCEPT !.T = T])]
    /\ ncalls' = ncalls + 1
    /\ UNCHANGED <<Connections, Mutex, handles, pools, resolverCalls, now, dbUp,
                   fatal, handed, OptVars>>

\* lines 384-390 accepting a factory of any type
GetConnectionSimple_Assert384_AnyType(t) ==
    /\ At(t, "gcs_assert384")
    /\ th' = [th EXCEPT ![t] = V2_Entry([th[t] EXCEPT !.fac = globalFactory])]
    /\ UNCHANGED <<Connections, Mutex, handles, pools, resolverCalls, now, dbUp,
                   fatal, ncalls, handed, OptVars>>

\* lines 384-390: factory, ok := globalFactory.(SqlcFactory[T]); a mismatch is an
\* error, otherwise GetConnection(ctx, tenant, factory)
GetConnectionSimple_Assert384(t) ==
    /\ At(t, "gcs_assert384")
    /\ IF globalFactory.type # th[t].T
       THEN th' = [th EXCEPT ![t] = Return(th[t], nil, ErrFactoryMismatch)]
       ELSE th' = [th EXCEPT ![t] = V2_Entry([th[t] EXCEPT !.fac = globalFactory])]
    /\ UNCHANGED <<Connections, Mutex, handles, pools, resolverCalls, now, dbUp,
                   fatal, ncalls, handed, OptVars>>

\* GetConnectionFromContextSimple[T](ctx), lines 394-402
GetConnectionFromContextSimple_Call(t) ==
    /\ CanCall(t)
    /\ \E cv \in ContextValues, T \in Types, ctxOk \in BOOLEAN :
         LET v   == StringValue(cv)
             in  == ConnectionOptions(v.tenant)
             rec == [Enter("GetConnectionFromContextSimple", in, in, ctxOk, nil, "idle")
                     EXCEPT !.T = T, !.cv = cv] IN
         IF ~v.ok \/ v.tenant = ""
         THEN th' = [th EXCEPT ![t] = Return(rec, nil, ErrTenantNotInContext)]
         ELSE /\ globalFactory.type # "" => Reserved < MaxHandles
              /\ th' = [th EXCEPT ![t] = NilCheck379(rec)]
    /\ ncalls' = ncalls + 1
    /\ UNCHANGED <<Connections, Mutex, handles, pools, resolverCalls, now, dbUp,
                   fatal, handed, OptVars>>

\* the adapters over the manager, with Close by the holders of the pools they
\* return, while the tenant database stays up
NextFactory ==
    \/ \E t \in Threads : NewSqlcWithTenantConnection_Call(t)
    \/ \E t \in Threads : NS_GetDB246(t)
    \/ \E t \in Threads : NS_Factory254(t)
    \/ \E t \in Threads : GetConnection_Call(t)
    \/ \E t \in Threads : GetConnectionFromContext_Call(t)
    \/ \E t \in Threads : SetGlobalFactory_Call(t)
    \/ \E t \in Threads : SetGlobalFactory_Store(t)
    \/ \E t \in Threads : GetConnectionSimple_Call(t)
    \/ \E t \in Threads : GetConnectionSimple_Assert384(t)
    \/ \E t \in Threads : GetConnectionFromContextSimple_Call(t)
    \/ \E t \in Threads : V2_Lock79(t)
    \/ \E t \in Threads : V2_Get81(t)
    \/ \E t \in Threads : V2_Unlock82(t)
    \/ \E t \in Threads : V2_Ping85(t)
    \/ \E t \in Threads : V2_Return86(t)
    \/ \E t \in Threads : V2_Del89(t)
    \/ \E t \in Threads : V2_Unlock91(t)
    \/ \E t \in Threads : V2_Resolve95(t)
    \/ \E t \in Threads : V2_Open106(t)
    \/ \E t \in Threads : V2_Ping123(t)
    \/ \E t \in Threads : V2_Exec129(t)
    \/ \E t \in Threads : V2_Exec136(t)
    \/ \E t \in Threads : V2_Ping151(t)
    \/ \E t \in Threads : V2_Lock158(t)
    \/ \E t \in Threads : V2_Set160(t)
    \/ \E t \in Threads : V2_Unlock161(t)
    \/ \E t \in Threads : Close_Call(t)
    \/ \E t \in Threads : Close_Lock185(t)
    \/ \E t \in Threads : Close_Del187(t)
    \/ \E t \in Threads : Close_Unlock188(t)
    \/ \E t \in Threads : Close_DB191(t)
    \/ \E t \in Threads : Close_Mark194(t)

SpecFactory == Init /\ [][NextFactory]_vars

----------------------------------------------------------------------------
(* C17 *)

\* the adapters, all of which end in NewSqlcWithTenantConnection
AdapterOps == {"NewSqlcWithTenantConnection", "GetConnection",
               "GetConnectionFromContext", "GetConnectionSimple",
               "GetConnectionFromContextSimple"}

\* nothing was built for the caller
ZeroResult(rec) ==
    /\ rec.pc = "done"
    /\ rec.ret.conn = nil
    /\ rec.obj = NoObj
    /\ rec.nfac = 0

\* what an adapter call has returned, and how often it has invoked its factory
C17_Returned(t) ==
    th[t].op \in AdapterOps =>
        /\ th[t].nfac <= 1
        /\ (th[t].pc # "done" /\ ~fatal) => th[t].nfac = 0
        /\ th[t].pc = "done" =>
              IF th[t].ret.err # ErrNil
              THEN ZeroResult(th[t])
              ELSE /\ th[t].nfac = 1
                   /\ th[t].ret.conn # nil
                   /\ th[t].obj = [by |-> th[t].fac.id,
                                   db |-> pools[th[t].ret.conn].DB]

\* line 246: a closed pool ends the call, an open one hands its handle to the factory
C17_HandleCheck(t) ==
    StepAt(t, "ns_getdb246") =>
        IF pools[th[t].conn].closed
        THEN ZeroResult(th'[t]) /\ th'[t].ret.err = ErrNoValidDB
        ELSE /\ th'[t].pc = "ns_factory254"
             /\ th'[t].db = pools[th[t].conn].DB
             /\ th'[t].nfac = 0

\* line 254: one invocation, on the handle line 246 obtained
C17_Invocation(t) ==
    (StepAt(t, "ns_factory254") /\ th[t].fac.id # 0) =>
        /\ th'[t].pc = "done"
        /\ th'[t].nfac = 1
        /\ th'[t].obj = [by |-> th[t].fac.id, db |-> th[t].db]
        /\ th'[t].ret = [conn |-> th[t].conn, err |-> ErrNil, ok |-> TRUE]

\* C17: NewSqlcWithTenantConnection returns the zero value, a nil pool and an error
\* without invoking the factory when the manager returns an error or the pool it
\* obtained is closed; otherwise it invokes the factory exactly once, on the
\* handle GetDB returned, and returns the object built together with the pool.
C17_FactoryOnLiveHandleOnly ==
    /\ [](\A t \in Threads : C17_Returned(t))
    /\ [][\A t \in Threads : C17_HandleCheck(t) /\ C17_Invocation(t)]_vars

\* an adapter obtained a pool from the manager that a holder closed before line 246
C17_Witness ==
    \E t \in Threads :
        /\ th[t].pc = "done" /\ th[t].op \in AdapterOps
        /\ th[t].ret.err = ErrNoValidDB
        /\ th[t].nfac = 0

----------------------------------------------------------------------------
(* C18 *)

\* this step leaves the resolver, the cache, the handles and the pools alone
ManagerUntouched ==
    /\ resolverCalls' = resolverCalls
    /\ Connections' = Connections
    /\ handles' = handles
    /\ pools' = pools

\* C18: when the type of the registered global factory is not the requested T,
\* GetConnectionSimple[T] returns the type-mismatch error, a zero value and no pool,
\* without invoking the factory, calling the resolver or changing the cache.
C18_TypeMismatchRejected ==
    [][\A t \in Threads :
          (StepAt(t, "gcs_assert384") /\ globalFactory.type # th[t].T) =>
              /\ ZeroResult(th'[t])
              /\ th'[t].ret.err = ErrFactoryMismatch
              /\ ManagerUntouched]_vars

\* a factory of another type was registered and GetConnectionSimple refused it
C18_Witness ==
    \E t \in Threads :
        /\ Done(t, "GetConnectionSimple")
        /\ th[t].ret.err = ErrFactoryMismatch
        /\ ~setRace
        /\ lastFactory # NoFactory
        /\ lastFactory.type # th[t].T

----------------------------------------------------------------------------
(* C19 *)

SetInProgress == \E t \in Threads : th[t].pc \in SetPCs

\* after SetGlobalFactory calls made one after the other, the slot holds the
\* factory of the last call
C19_SlotHoldsLast ==
    (~setRace /\ ~SetInProgress) => globalFactory = lastFactory

\* GetConnectionSimple takes the factory in the slot and that factory builds the object
C19_UsesSlot(t) ==
    /\ (StepAt(t, "gcs_assert384") /\ globalFactory.type = th[t].T) =>
           th'[t].fac = globalFactory
    /\ (StepAt(t, "ns_factory254") /\ th[t].fac.id # 0) =>
           th'[t].obj.by = th[t].fac.id

\* before any registration GetConnectionSimple fails without calling the manager
C19_NotSet(t) ==
    (/\ CallStep(t)
     /\ th'[t].op = "GetConnectionSimple"
     /\ lastFactory = NoFactory /\ ~SetInProgress) =>
        /\ ZeroResult(th'[t])
        /\ th'[t].ret.err = ErrFactoryNotSet
        /\ ManagerUntouched

\* C19: the global factory is one slot: after any sequence of SetGlobalFactory calls
\* it holds the factory of the last call, whatever the type of earlier ones, and
\* that is the factory GetConnectionSimple uses; before any registration
\* GetConnectionSimple fails with 'global factory not set' without calling the manager.
C19_LastRegistrationWins ==
    /\ []C19_SlotHoldsLast
    /\ [][\A t \in Threads : C19_UsesSlot(t) /\ C19_NotSet(t)]_vars

\* a second registration replaced the first and GetConnectionSimple built its
\* object with the second
C19_Witness ==
    \E t, u \in Threads :
        /\ Done(t, "GetConnectionSimple")
        /\ th[t].ret.err = ErrNil
        /\ th[t].obj.by = lastFactory.id
        /\ Done(u, "SetGlobalFactory")
        /\ th[u].fac # lastFactory
        /\ ~setRace

----------------------------------------------------------------------------
(* C20 *)

ContextOps == {"GetConnectionFromContext", "GetConnectionFromContextSimple"}

\* C20: GetConnectionFromContext and GetConnectionFromContextSimple return the
\* 'tenant not found in context' error, a zero value and no pool when the context
\* holds no value under TenantContextKey, a value that is not a string, or the
\* empty string; the manager is not entered, no factory is invoked and the cache
\* is unchanged.
C20_TenantMissingRejected ==
    [][\A t \in Threads :
          (/\ CallStep(t)
           /\ th'[t].op \in ContextOps
           /\ (th'[t].cv.kind # "string" \/ th'[t].cv.str = "")) =>
              /\ ZeroResult(th'[t])
              /\ th'[t].ret.err = ErrTenantNotInContext
              /\ ManagerUntouched]_vars

\* a context holding a number under the key was refused
C20_Witness ==
    \E t \in Threads :
        /\ Done(t, "GetConnectionFromContextSimple")
        /\ th[t].cv = CtxInt
        /\ th[t].ret.err = ErrTenantNotInContext

----------------------------------------------------------------------------
(* C21 *)

\* goroutine t takes a step of CloseAllTenantConnections
CloseAllStep(t) ==
    \/ CallStep(t) /\ th'[t].op = "CloseAllTenantConnections"
    \/ StepAt(t, "closeall_unlock357")

\* C21: CloseAllTenantConnections changes no state: every cache entry, every pool
\* (closed flag and handle reference) and every handle is the same after each of
\* its steps, and it returns no error.
C21_CloseAllIsNoOp ==
    [][\A t \in Threads :
          CloseAllStep(t) =>
              /\ Connections' = Connections
              /\ pools' = pools
              /\ handles' = handles
              /\ th'[t].pc = "done" =>
                    th'[t].ret = [conn |-> nil, err |-> ErrNil, ok |-> TRUE]]_vars

\* CloseAllTenantConnections has returned and an open pool is still cached
C21_Witness ==
    \E t \in Threads, p \in HandleIds :
        /\ Done(t, "CloseAllTenantConnections")
        /\ Cached(p)
        /\ ~pools[p].closed
        /\ handles[pools[p].DB].st = "open"

----------------------------------------------------------------------------
(* C23 *)

\* the program points of a build, from the resolver call to the cache store
BuildPCs == {"v2_resolve95", "v2_open106", "v2_ping123", "v2_exec129",
             "v2_exec136", "v2_ping151", "v2_lock158", "v2_set160", "v2_unlock161"}

\* a step of a build moves on or ends the call; ending it short of the last step
\* returns an error and no pool
C23_NoRepeat(t) ==
    (th[t].op = V2 /\ th[t].pc \in BuildPCs /\ th'[t] # th[t]) =>
        /\ th'[t].pc # th[t].pc
        /\ resolverCalls' <= resolverCalls + 1
        /\ (th'[t].pc = "done" /\ th'[t].path # "built") =>
              /\ th'[t].ret.err # ErrNil
              /\ th'[t].ret.conn = nil

\* C23: one GetTenantConnectionV2 call invokes the resolver at most once and opens
\* at most one handle, and a failing step ends the call with an error instead of
\* being repeated.
C23_NoInternalRetries ==
    /\ [](\A t \in Threads : th[t].nres <= 1 /\ th[t].nopen <= 1)
    /\ [][\A t \in Threads : C23_NoRepeat(t)]_vars

\* a call failed at the first ping after one resolver call and one open
C23_Witness ==
    \E t \in Threads :
        /\ Done(t, V2)
        /\ th[t].ret.err.msg = "failed to ping database"
        /\ th[t].nres = 1 /\ th[t].nopen = 1

----------------------------------------------------------------------------
(* C24 *)

\* the step that follows program point pc of a build when it succeeds
BuildSuccessor(pc, opts) ==
    CASE pc = "v2_resolve95" -> "v2_open106"
      [] pc = "v2_open106"   -> "v2_ping123"
      [] pc = "v2_ping123"   -> "v2_exec129"
      [] pc = "v2_exec129"   -> IF opts.ForceUTC THEN "v2_exec136" ELSE "v2_ping151"
      [] pc = "v2_exec136"   -> "v2_ping151"
      [] pc = "v2_ping151"   -> IF opts.CacheEnabled THEN "v2_lock158" ELSE "done"
      [] pc = "v2_lock158"   -> "v2_set160"
      [] pc = "v2_set160"    -> "v2_unlock161"
      [] pc = "v2_unlock161" -> "done"

\* each step of a build is followed by the next one of the order, or ends the
\* call with an error; the limits are configured on the handle when it is opened
C24_Order(t) ==
    (th[t].op = V2 /\ th[t].pc \in BuildPCs /\ th'[t] # th[t]) =>
        LET next == BuildSuccessor(th[t].pc, th[t].opts) IN
        /\ \/ th'[t].pc = next
           \/ th'[t].pc = "done" /\ th'[t].ret.err # ErrNil
        /\ (th[t].pc = "v2_open106" /\ th'[t].pc = next) =>
              handles'[th'[t].db].cfg =
                  <<th[t].opts.MaxOpenConns, th[t].opts.MaxIdleConns,
                    th[t].opts.ConnMaxIdle, th[t].opts.ConnMaxLifetime>>
        /\ (th'[t].pc = "done" /\ th'[t].ret.err = ErrNil) =>
              /\ th[t].pc \in {"v2_ping151", "v2_unlock161"}
              /\ th'[t].ret.conn = th[t].db
              /\ pools'[th[t].db].live

\* a pool enters the cache at line 160 only, after its final probe
C24_StoreLast ==
    \A k \in CacheKeys :
        (Connections'[k] # Connections[k] /\ Connections'[k].type # "none") =>
            \E t \in Threads :
                /\ StepAt(t, "v2_set160")
                /\ Connections'[k].ref = th[t].db
                /\ pools[th[t].db].live

\* C24: on a cache miss GetTenantConnectionV2 resolves the credentials, opens the
\* handle and configures its limits, probes it, sets the search path, sets the
\* time zone when ForceUTC is set, probes it again, stores the pool and returns, in
\* this order; the pool is stored and returned only after every setup step,
\* the final probe included, has succeeded.
C24_BuildOrder ==
    [][(\A t \in Threads : C24_Order(t)) /\ C24_StoreLast]_vars

\* a build with ForceUTC went through every step and its pool is cached
C24_Witness ==
    \E t \in Threads :
        /\ Done(t, V2) /\ th[t].path = "built"
        /\ th[t].in.ForceUTC
        /\ Cached(th[t].ret.conn)

----------------------------------------------------------------------------
(* C25 *)

SetupPCs == {"v2_ping123", "v2_exec129", "v2_exec136", "v2_ping151"}

\* a setup step fails exactly when the handle or the database does, whatever the
\* caller's context; the resolver's answer is the catalog's
C25_Setup(t) ==
    /\ (th[t].op = V2 /\ th[t].pc \in SetupPCs /\ th'[t] # th[t]) =>
          ((th'[t].pc = "done" /\ th'[t].ret.err # ErrNil)
              <=> ~(handles[th[t].db].st = "open" /\ dbUp))
    /\ (th[t].op = V2 /\ StepAt(t, "v2_resolve95")) =>
          th'[t].err \in {ErrStore, GetTenant(th[t].opts.Tenant).err}

\* what the cache holds is a pool that passed every setup step on an open handle
C25_NoHalfBuiltPool ==
    \A k \in CacheKeys :
        Connections[k].type # "none" =>
            LET p == Connections[k].ref IN
            /\ pools[p].live
            /\ k = CacheKeyV2(pools[p].SearchPath)
            /\ handles[pools[p].DB].st # "none"

\* C25: on a cache miss the outcome of credential resolution and of the setup steps
\* (initial ping, search-path statement, time-zone statement, final ping) does not
\* depend on the caller's context: a cancelled or expired caller context neither
\* makes the build fail nor leaves a half-configured pool in the cache.
C25_SetupIgnoresCallerContext ==
    /\ [][\A t \in Threads : C25_Setup(t)]_vars
    /\ []C25_NoHalfBuiltPool

\* a caller whose context is dead has passed every setup step and is storing its pool
C25_Witness ==
    \E t \in Threads :
        /\ th[t].op = V2
        /\ th[t].pc = "v2_set160"
        /\ ~th[t].ctxOk
        /\ th[t].hit = nil

----------------------------------------------------------------------------
(* C26 *)

\* the logger a pool's options select
LoggerOf(p) == IF pools[p].Options.QueryLogger = "nil" THEN "default" ELSE "custom"

\* the three steps of a logged method on an open pool: read the handle, invoke the
\* logger, execute
C26_Steps(t) ==
    /\ (CallStep(t) /\ th'[t].op \in LoggedOps /\ ~pools[th'[t].tc].closed) =>
          /\ th'[t].pc = "log_logger"
          /\ th'[t].nlog = 0 /\ th'[t].nexec = 0
    /\ StepAt(t, "log_logger") =>
          /\ th'[t].pc = "log_exec"
          /\ th'[t].nlog = 1 /\ th'[t].nexec = 0
          /\ th'[t].logger = LoggerOf(th[t].tc)
    /\ StepAt(t, "log_exec") =>
          /\ th'[t].pc = "done"
          /\ th[t].nlog = 1 /\ th'[t].nlog = 1
          /\ th'[t].nexec = 1

\* C26: ExecWithLog, QueryWithLog and QueryRowWithLog on an open pool invoke the
\* logger hook exactly once, the pool's QueryLogger or the default logger when none
\* is configured, and the invocation comes before the statement is executed.
C26_LoggerOnceBeforeExecution ==
    /\ [](\A t \in Threads : th[t].nexec <= th[t].nlog /\ th[t].nlog <= 1)
    /\ [][\A t \in Threads : C26_Steps(t)]_vars

\* a query went through the logger the pool was configured with
C26_Witness ==
    \E t \in Threads :
        /\ Done(t, "QueryWithLog")
        /\ th[t].logger = "custom"
        /\ th[t].nlog = 1 /\ th[t].nexec = 1

----------------------------------------------------------------------------
(* C27 *)

\* C27: every execution through ExecWithLog, QueryWithLog and QueryRowWithLog on an
\* open pool is logged twice, once through the logger hook and once through the
\* fixed diagnostic line emitted after the execution, whatever the logger is.
C27_LoggedTwice ==
    \A t \in Threads :
        (th[t].pc = "done" /\ th[t].op \in LoggedOps /\ th[t].nexec = 1) =>
            /\ th[t].nlog = 1
            /\ th[t].ndiag = 1

----------------------------------------------------------------------------
(* C28 *)

\* the entry under key k has outlived the TTL it was stored with
Expired(k) ==
    /\ Connections[k].type # "none"
    /\ Connections[k].exp # NoExpiry
    /\ now > Connections[k].exp

\* a lookup of an expired entry misses; the call that stores after a miss has asked
\* the Catalog Resolver once and stores a pool the cache did not hold
C28_Lookup(t) ==
    /\ (StepAt(t, "v2_get81") /\ Expired(CacheKeyV2(th[t].opts.Tenant))) =>
          /\ th'[t].pc = "v2_unlock91"
          /\ th'[t].hit = nil
    /\ (StepAt(t, "v2_set160") /\ th[t].opts.CacheTTL >= 0) =>
          /\ th[t].nres = 1
          /\ Connections'[CacheKeyV2(th[t].opts.Tenant)].ref = th[t].conn
          /\ Connections[CacheKeyV2(th[t].opts.Tenant)].ref # th[t].conn

\* an entry changes only in a store (line 160), in Close (line 187) or in the
\* stale-probe eviction (line 89), and is removed only by the last two
C28_NoSweep ==
    \A k \in CacheKeys :
        /\ Connections'[k] # Connections[k] =>
              \E t \in Threads : \/ StepAt(t, "v2_set160")
                                 \/ StepAt(t, "close_del187")
                                 \/ StepAt(t, "v2_del89")
        /\ (Connections[k].type # "none" /\ Connections'[k].type = "none") =>
              \E t \in Threads : \/ StepAt(t, "close_del187")
                                 \/ StepAt(t, "v2_del89")

\* C28: cache entries expire passively. Once the TTL given at SetWithTTL has
\* elapsed a lookup of the key misses, so the call goes on to the Catalog Resolver
\* and stores a newly built pool; apart from Close and the stale-probe eviction no
\* step of the manager removes an entry.
C28_PassiveExpiry ==
    [][(\A t \in Threads : C28_Lookup(t)) /\ C28_NoSweep]_vars

\* a call has just missed on an entry that is still in the cache, expired
C28_Witness ==
    \E t \in Threads :
        /\ th[t].pc = "v2_unlock91"
        /\ th[t].op = V2
        /\ th[t].hit = nil
        /\ Expired(CacheKeyV2(th[t].opts.Tenant))

----------------------------------------------------------------------------
(* GetTenantConnection, the first generation (tenant_con.go) *)

V1 == "GetTenantConnection"

\* GetTenantConnection(tenant), up to Mutex.Lock() at line 20
GetTenantConnection_Call(t) ==
    /\ CanCall(t)
    /\ \E tenant \in V1Tenants :
         /\ tenant \in CatalogRows => Reserved < MaxHandles
         /\ th' = [th EXCEPT ![t] =
                  [Enter(V1, ZeroOptions, ZeroOptions, TRUE, nil, "v1_lock20")
                   EXCEPT !.tenant = tenant]]
    /\ ncalls' = ncalls + 1
    /\ UNCHANGED <<Connections, Mutex, handles, pools, resolverCalls, now, dbUp,
                   fatal, handed, OptVars>>

\* line 20: Mutex.Lock(); line 21 defers the unlock
V1_Lock20(t) ==
    /\ At(t, "v1_lock20")
    /\ MutexLock(t)
    /\ th' = [th EXCEPT ![t].pc = "v1_get24"]
    /\ UNCHANGED <<Connections, handles, pools, resolverCalls, now, dbUp,
                   fatal, ncalls, handed, OptVars>>

\* lines 24-26: Connections.Get(prefixConnection + tenant) and, when found, the
\* unchecked assertion conn.(Connection), which panics on a value of another type
V1_Get24(t) ==
    /\ At(t, "v1_get24")
    /\ LET g == CacheGet(CacheKeyV1(th[t].tenant)) IN
       IF ~g.found
       THEN /\ th' = [th EXCEPT ![t].pc = "v1_resolve28"]
            /\ UNCHANGED fatal
       ELSE IF g.type = "Connection"
       THEN /\ th' = [th EXCEPT ![t].pc = "v1_unlock21", ![t].conn = g.ref,
                                ![t].hit = g.ref, ![t].path = "hit"]
            /\ UNCHANGED fatal
       ELSE /\ th' = [th EXCEPT ![t].pc = "v1_panic25", ![t].hit = g.ref]
            /\ fatal' = TRUE
    /\ UNCHANGED <<Connections, Mutex, handles, pools, resolverCalls, now, dbUp,
                   ncalls, handed, OptVars>>

\* lines 28-31: GetTenant(tenant)
V1_Resolve28(t) ==
    /\ At(t, "v1_resolve28")
    /\ resolverCalls' = resolverCalls + 1
    /\ \E storeFails \in BOOLEAN :
         LET r == IF storeFails THEN [catalog |-> "", err |-> ErrStore]
                                ELSE GetTenant(th[t].tenant) IN
         th' = [th EXCEPT ![t].nres = @ + 1,
                          ![t].err = r.err,
                          ![t].pc = IF r.err # ErrNil THEN "v1_unlock21" ELSE "v1_open34"]
    /\ UNCHANGED <<Connections, Mutex, handles, pools, now, dbUp,
                   fatal, ncalls, handed, OptVars>>

\* lines 33-37: sql.Open
V1_Open34(t) ==
    /\ At(t, "v1_open34")
    /\ \E openFails \in BOOLEAN :
         IF openFails
         THEN /\ th' = [th EXCEPT ![t].err = ErrDriver, ![t].pc = "v1_unlock21"]
              /\ UNCHANGED handles
         ELSE LET h == FreeHandle IN
              /\ handles' = [handles EXCEPT ![h] =
                   [st |-> "open", closes |-> 0, cfg |-> <<0, 0, 0, 0>>]]
              /\ th' = [th EXCEPT ![t].pc = "v1_exec41", ![t].db = h,
                                  ![t].nopen = @ + 1]
    /\ UNCHANGED <<Connections, Mutex, pools, resolverCalls, now, dbUp,
                   fatal, ncalls, handed, OptVars>>

\* lines 41-44: dbCon.Exec("SET search_path TO <tenant>"); on an error the
\* function returns with dbCon left open
V1_Exec41(t) ==
    /\ At(t, "v1_exec41")
    /\ IF PingContext(th[t].db, TRUE)
       THEN th' = [th EXCEPT ![t].pc = "v1_set48"]
       ELSE th' = [th EXCEPT ![t].err = ErrDriver, ![t].pc = "v1_unlock21"]
    /\ UNCHANGED <<Connections, Mutex, handles, pools, resolverCalls, now, dbUp,
                   fatal, ncalls, handed, OptVars>>

\* lines 47-50: SetWithTTL(prefixConnection+tenant, connection, 1, 1*time.Hour),
\* SetConnMaxLifetime and SetConnMaxIdleTime of one hour
V1_Set48(t) ==
    /\ At(t, "v1_set48")
    /\ Connections' = CacheSetWithTTL(CacheKeyV1(th[t].tenant), "Connection",
                                      th[t].db, V1TTL)
    /\ handles' = [handles EXCEPT ![th[t].db].cfg = <<0, 0, V1TTL, V1TTL>>]
    /\ th' = [th EXCEPT ![t].pc = "v1_unlock21", ![t].conn = th[t].db,
                        ![t].path = "built"]
    /\ UNCHANGED <<Mutex, pools, resolverCalls, now, dbUp,
                   fatal, ncalls, handed, OptVars>>

\* the deferred Mutex.Unlock() of line 21, then the return of lines 25, 30, 36, 43
\* or 52
V1_Unlock21(t) ==
    /\ At(t, "v1_unlock21")
    /\ MutexUnlock
    /\ IF Mutex = 0
       THEN UNCHANGED th
       ELSE th' = [th EXCEPT ![t] = Return(th[t], th[t].conn, th[t].err)]
    /\ UNCHANGED <<Connections, handles, pools, resolverCalls, now, dbUp,
                   ncalls, handed, OptVars>>

\* the two generations side by side over the one cache and the one mutex
NextV1 ==
    \/ \E t \in Threads : GetTenantConnection_Call(t)
    \/ \E t \in Threads : V1_Lock20(t)
    \/ \E t \in Threads : V1_Get24(t)
    \/ \E t \in Threads : V1_Resolve28(t)
    \/ \E t \in Threads : V1_Open34(t)
    \/ \E t \in Threads : V1_Exec41(t)
    \/ \E t \in Threads : V1_Set48(t)
    \/ \E t \in Threads : V1_Unlock21(t)
    \/ \E t \in Threads : GetTenantConnectionV2_Call(t)
    \/ \E t \in Threads : V2_Lock79(t)
    \/ \E t \in Threads : V2_Get81(t)
    \/ \E t \in Threads : V2_Unlock82(t)
    \/ \E t \in Threads : V2_Ping85(t)
    \/ \E t \in Threads : V2_Return86(t)
    \/ \E t \in Threads : V2_Del89(t)
    \/ \E t \in Threads : V2_Unlock91(t)
    \/ \E t \in Threads : V2_Resolve95(t)
    \/ \E t \in Threads : V2_Open106(t)
    \/ \E t \in Threads : V2_Ping123(t)
    \/ \E t \in Threads : V2_Exec129(t)
    \/ \E t \in Threads : V2_Exec136(t)
    \/ \E t \in Threads : V2_Ping151(t)
    \/ \E t \in Threads : V2_Lock158(t)
    \/ \E t \in Threads : V2_Set160(t)
    \/ \E t \in Threads : V2_Unlock161(t)
    \/ DbToggle

SpecV1 == Init /\ [][NextV1]_vars

----------------------------------------------------------------------------
(* C22 *)

\* C22: the cache keys of the two generations never collide, so GetTenantConnection
\* never reads a value stored by GetTenantConnectionV2 (its lookup never ends in the
\* failed assertion of line 25) and GetTenantConnectionV2 never looks up a key that
\* holds a first-generation Connection.
C22_KeysNeverCollide ==
    \A t \in Threads :
        /\ th[t].pc # "v1_panic25"
        /\ th[t].pc = "v2_get81" =>
              Connections[CacheKeyV2(th[t].opts.Tenant)].type
                  \in {"none", "TenantConnectionV2"}

----------------------------------------------------------------------------
(* C29 *)

\* C29: when GetTenantConnection fails at SET search_path after sql.Open succeeded,
\* the opened handle has been closed by the time the error is returned and no cache
\* entry refers to it.
C29_ConfigureFailureCleansUp ==
    \A t \in Threads :
        (Done(t, V1) /\ th[t].ret.err # ErrNil /\ th[t].db # nil) =>
            /\ handles[th[t].db].st = "closed"
            /\ \A k \in CacheKeys : Connections[k].ref # th[t].db

----------------------------------------------------------------------------
(* C30 *)

\* program points of GetTenantConnection between Mutex.Lock() and the deferred
\* Mutex.Unlock()
V1LockedPCs == {"v1_get24", "v1_resolve28", "v1_open34", "v1_exec41", "v1_set48",
                "v1_unlock21"}

\* C30: GetTenantConnection holds the global lock from its lookup to its store, so
\* concurrent calls for one tenant open and store at most one handle and successful
\* callers receive the same connection; a hit is returned without a probe, whatever
\* the state of the database.
C30_V1HoldsLock ==
    /\ \A t \in Threads : th[t].pc \in V1LockedPCs => Mutex = t
    /\ \A t, u \in Threads :
          (Done(t, V1) /\ Done(u, V1) /\ th[t].tenant = th[u].tenant
             /\ th[t].ret.err = ErrNil /\ th[u].ret.err = ErrNil) =>
                th[t].ret.conn = th[u].ret.conn
    /\ \A t \in Threads :
          (Done(t, V1) /\ th[t].path = "hit") =>
              /\ th[t].ret.err = ErrNil
              /\ th[t].nres = 0 /\ th[t].nopen = 0

----------------------------------------------------------------------------
(* C31 *)

\* program points that call Mutex.Unlock()
UnlockPCs == {"v2_unlock82", "v2_unlock91", "v2_unlock161", "close_unlock188",
              "closeall_unlock357", "v1_unlock21"}

\* program points between a Mutex.Lock() and the Mutex.Unlock() that matches it
MutexHeldPCs == {"v2_get81", "v2_unlock82", "v2_unlock91", "v2_set160",
                 "v2_unlock161", "close_del187", "close_unlock188",
                 "closeall_unlock357"} \cup V1LockedPCs

\* C31: every Lock of the global mutex is matched by exactly one Unlock of the same
\* goroutine: a goroutine about to unlock holds the mutex (also after a cached entry
\* was found and its probe failed), no unlock hits an unlocked mutex, and the mutex
\* is held only by a goroutine that is still before its unlock.
C31_LockDiscipline ==
    /\ ~fatal
    /\ \A t \in Threads : th[t].pc \in UnlockPCs => Mutex = t
    /\ Mutex # 0 => th[Mutex].pc \in MutexHeldPCs

----------------------------------------------------------------------------
(* C33 *)

\* C33: Close on pool P deletes the entry under P's tenant key only when that entry
\* holds P; an entry holding another pool of the same tenant is left in place.
C33_CloseEvictsOwnEntryOnly ==
    [][\A t \in Threads :
          LET k == CacheKeyV2(pools[th[t].tc].Options.Tenant) IN
          (/\ StepAt(t, "close_del187")
           /\ Connections[k].type # "none"
           /\ Connections[k].ref # th[t].tc)
          => Connections'[k] = Connections[k]]_vars

----------------------------------------------------------------------------
(* C34 *)

\* C34: when GetTenantConnectionV2 returns a pool from the cache-hit path (line
\* 86), that pool's closed flag is false and its handle has not been closed.
C34_HitNotClosedAtReturn ==
    [][\A t \in Threads :
          StepAt(t, "v2_ret86") =>
              /\ ~pools'[th[t].conn].closed
              /\ handles'[pools[th[t].conn].DB].st = "open"]_vars

----------------------------------------------------------------------------
(* C35 *)

\* C35: ExecWithLog and QueryWithLog never execute a statement on a handle that
\* Close has closed: the execution step finds the handle open.
C35_NoExecutionAfterClose ==
    [][\A t \in Threads :
          (StepAt(t, "log_exec") /\ th[t].op \in {"ExecWithLog", "QueryWithLog"})
          => handles[th[t].db].st = "open"]_vars

----------------------------------------------------------------------------
(* C37 *)

\* C37: the stale-probe eviction of line 89 removes the entry only when the pool
\* itself is unusable (closed, or its database unreachable under a live context),
\* never because the caller's context alone made the probe fail.
C37_CancelledCallerCannotEvict ==
    [][\A t \in Threads :
          StepAt(t, "v2_del89") =>
              \/ pools[th[t].hit].closed
              \/ ~PingContext(pools[th[t].hit].DB, TRUE)]_vars

----------------------------------------------------------------------------
(* C38 *)

\* C38: when GetTenantConnectionV2 takes a pool's cache entry away, by the eviction
\* of line 89 or by storing another pool under the same key at line 160, and the
\* pool's handle is open, that step closes the handle.
C38_NoOrphanedPool ==
    [][\A k \in CacheKeys :
          LET p == Connections[k].ref IN
          (/\ Connections[k].type = "TenantConnectionV2"
           /\ Connections'[k].ref # p
           /\ \E t \in Threads : StepAt(t, "v2_del89") \/ StepAt(t, "v2_set160")
           /\ handles[pools[p].DB].st = "open")
          => handles'[pools[p].DB].st = "closed"]_vars

----------------------------------------------------------------------------
(* Every operation that takes a lock, side by side *)

NextAll ==
    \/ \E t \in Threads : GetTenantConnectionV2_Call(t)
    \/ \E t \in Threads : V2_Lock79(t)
    \/ \E t \in Threads : V2_Get81(t)
    \/ \E t \in Threads : V2_Unlock82(t)
    \/ \E t \in Threads : V2_Ping85(t)
    \/ \E t \in Threads : V2_Return86(t)
    \/ \E t \in Threads : V2_Del89(t)
    \/ \E t \in Threads : V2_Unlock91(t)
    \/ \E t \in Threads : V2_Resolve95(t)
    \/ \E t \in Threads : V2_Open106(t)
    \/ \E t \in Threads : V2_Ping123(t)
    \/ \E t \in Threads : V2_Exec129(t)
    \/ \E t \in Threads : V2_Exec136(t)
    \/ \E t \in Threads : V2_Ping151(t)
    \/ \E t \in Threads : V2_Lock158(t)
    \/ \E t \in Threads : V2_Set160(t)
    \/ \E t \in Threads : V2_Unlock161(t)
    \/ \E t \in Threads : Close_Call(t)
    \/ \E t \in Threads : Close_Lock185(t)
    \/ \E t \in Threads : Close_Del187(t)
    \/ \E t \in Threads : Close_Unlock188(t)
    \/ \E t \in Threads : Close_DB191(t)
    \/ \E t \in Threads : Close_Mark194(t)
    \/ \E t \in Threads : IsHealthy_Call(t)
    \/ \E t \in Threads : IsHealthy_Ping212(t)
    \/ \E t \in Threads : GetDB_Call(t)
    \/ \E t \in Threads : Logged_Call(t)
    \/ \E t \in Threads : Logged_Log(t)
    \/ \E t \in Threads : Logged_Exec(t)
    \/ \E t \in Threads : CloseAll_Call(t)
    \/ \E t \in Threads : CloseAll_Unlock357(t)
    \/ Tick
    \/ DbToggle
    \/ \E t \in Threads : GetTenantConnection_Call(t)
    \/ \E t \in Threads : V1_Lock20(t)
    \/ \E t \in Threads : V1_Get24(t)
    \/ \E t \in Threads : V1_Resolve28(t)
    \/ \E t \in Threads : V1_Open34(t)
    \/ \E t \in Threads : V1_Exec41(t)
    \/ \E t \in Threads : V1_Set48(t)
    \/ \E t \in Threads : V1_Unlock21(t)

SpecAll == Init /\ [][NextAll]_vars

----------------------------------------------------------------------------
(* C32 *)

\* the steps goroutine t can take inside a call
StepOf(t) ==
    \/ V2_Lock79(t)
    \/ V2_Get81(t)
    \/ V2_Unlock82(t)
    \/ V2_Ping85(t)
    \/ V2_Return86(t)
    \/ V2_Del89(t)
    \/ V2_Unlock91(t)
    \/ V2_Resolve95(t)
    \/ V2_Open106(t)
    \/ V2_Ping123(t)
    \/ V2_Exec129(t)
    \/ V2_Exec136(t)
    \/ V2_Ping151(t)
    \/ V2_Lock158(t)
    \/ V2_Set160(t)
    \/ V2_Unlock161(t)
    \/ Close_Lock185(t)
    \/ Close_Del187(t)
    \/ Close_Unlock188(t)
    \/ Close_DB191(t)
    \/ Close_Mark194(t)
    \/ IsHealthy_Ping212(t)
    \/ Logged_Log(t)
    \/ Logged_Exec(t)
    \/ CloseAll_Unlock357(t)
    \/ V1_Lock20(t)
    \/ V1_Get24(t)
    \/ V1_Resolve28(t)
    \/ V1_Open34(t)
    \/ V1_Exec41(t)
    \/ V1_Set48(t)
    \/ V1_Unlock21(t)

\* program points that wait for the global mutex
MutexWaitPCs == {"v2_lock79", "v2_lock158", "close_lock185", "v1_lock20"}

\* goroutine t is inside a call
InCall(t) == th[t].pc \notin {"idle", "done"}

\* goroutine t holds the lock of some pool
HoldsPoolLock(t) == \E p \in HandleIds : pools[p].w = t \/ t \in pools[p].r

\* C32: no goroutine waits forever. While the process runs, a goroutine inside a
\* call can take its next step, or it waits for the global mutex and the goroutine
\* that locked the mutex can take its next step. The two locks nest only as pool
\* lock, then global mutex: a goroutine holding both is in Close at lines 185-188,
\* and a pool's write lock is held only by a Close in progress.
C32_NoDeadlock ==
    /\ \A t \in Threads :
          (~fatal /\ InCall(t)) =>
              \/ ENABLED StepOf(t)
              \/ /\ th[t].pc \in MutexWaitPCs
                 /\ Mutex \in Threads \ {t}
                 /\ InCall(Mutex)
                 /\ ENABLED StepOf(Mutex)
    /\ \A t \in Threads :
          (HoldsPoolLock(t) /\ (Mutex = t \/ th[t].pc \in MutexHeldPCs)) =>
              th[t].pc \in {"close_del187", "close_unlock188"}
    /\ \A p \in HandleIds :
          pools[p].w # 0 =>
              /\ th[pools[p].w].op = "Close"
              /\ th[pools[p].w].tc = p
              /\ InCall(pools[p].w)

\* Close holds a pool's lock and the global mutex while another goroutine waits
\* for the mutex
C32_Witness ==
    \E t, u \in Threads :
        /\ th[t].pc \in MutexWaitPCs
        /\ Mutex = u
        /\ th[u].pc = "close_del187"
        /\ pools[th[u].tc].w = u

----------------------------------------------------------------------------
(* C36 *)

\* C36: IsHealthy probes under the pool's read lock a handle that Close has not
\* closed: between its closed test and its probe it holds the read lock, the
\* write lock of Close excludes every reader, and readers do not exclude each
\* other.
C36_ProbeUnderReadLock ==
    /\ \A t \in Threads :
          th[t].pc = "ih_ping212" =>
              /\ t \in pools[th[t].tc].r
              /\ pools[th[t].tc].w = 0
              /\ ~pools[th[t].tc].closed
              /\ handles[pools[th[t].tc].DB].st = "open"
    /\ \A p \in HandleIds : pools[p].w # 0 => pools[p].r = {}

\* two IsHealthy calls hold the read lock of one pool at the same time
C36_Witness ==
    \E t, u \in Threads :
        /\ t # u
        /\ th[t].pc = "ih_ping212" /\ th[u].pc = "ih_ping212"
        /\ th[t].tc = th[u].tc
        /\ pools[th[t].tc].r = {t, u}

====
